---- MODULE Spec2Model ----
(***************************************************************************)
(* Task lifecycle and time accounting of the kanban board (App, AddPanel   *)
(* in src/unnamed/part_000; src/src/App.tsx is the same file before the    *)
(* Pomodoro/break timer was added).                                        *)
(*                                                                         *)
(* Time unit: one unit is one minute (60000 ms).  Date.now() is `clock`;   *)
(* it starts at 1 because a real Date.now() is never 0.  A handler and the *)
(* effects React flushes after it read the same clock value.               *)
(***************************************************************************)
EXTENDS Integers, Sequences, FiniteSets, TLC

\* ------------------------------------------------------------------ bounds
\* the clock stops at MaxTime
MaxTime == 4
\* late intervals: at most MaxDelta units pass between two ticks
MaxDelta == 2
\* task ids issued under Spec
MaxIds == 2
\* task ids, template ids and calendar days under SpecSeed
MaxSeedIds == 3
MaxDailyIds == 2
MaxDay == 2
\* minutes a settings input is set to
MaxMinutes == 2
\* subtasks per task
MaxSubtasks == 1

\* ------------------------------------------------------------- JS values
\* null / undefined of an optional field (startedAt, accumulatedMs, originId)
Null == -1000

\* `x ? a : b`, `!x`: null, undefined and 0 are falsy
Truthy(x) == x # Null /\ x # 0

\* `x ?? d`: only null and undefined are replaced
Coalesce(x, d) == IF x = Null THEN d ELSE x

Max(a, b) == IF a >= b THEN a ELSE b

STATUSES == <<"todo", "in_progress", "completed">>

StatusSet == {STATUSES[i] : i \in 1..Len(STATUSES)}

\* String.prototype.trim on a title given as a sequence of characters
RECURSIVE TrimStart(_)
TrimStart(s) == IF s # <<>> /\ Head(s) = " " THEN TrimStart(Tail(s)) ELSE s

RECURSIVE TrimEnd(_)
TrimEnd(s) ==
    IF s # <<>> /\ s[Len(s)] = " " THEN TrimEnd(SubSeq(s, 1, Len(s) - 1)) ELSE s

\* mutant: the title is taken as typed
TrimKeepsBlanks(s) == s

Trim(s) == TrimEnd(TrimStart(s))

\* ------------------------------------------------------ Task State Machine
\* mutant: leaving in_progress subtracts the elapsed run
TransitionSubtractsElapsed(t, status, at) ==
    IF t.status = status
    THEN IF status = "in_progress"
         THEN [t EXCEPT !.startedAt = Coalesce(t.startedAt, at),
                        !.accumulatedMs = Coalesce(t.accumulatedMs, 0)]
         ELSE t
    ELSE IF t.status = "in_progress"
    THEN [t EXCEPT !.status = status,
                   !.accumulatedMs = Coalesce(t.accumulatedMs, 0)
                       - (IF Truthy(t.startedAt) THEN at - t.startedAt ELSE 0),
                   !.startedAt = Null]
    ELSE IF status = "in_progress"
    THEN [t EXCEPT !.status = status, !.startedAt = at,
                   !.accumulatedMs = Coalesce(t.accumulatedMs, 0)]
    ELSE [t EXCEPT !.status = status]

\* mutant: a same-status transition into in_progress restarts the clock
TransitionRestartsClock(t, status, at) ==
    IF t.status = status
    THEN IF status = "in_progress"
         THEN [t EXCEPT !.startedAt = at,
                        !.accumulatedMs = Coalesce(t.accumulatedMs, 0)]
         ELSE t
    ELSE IF t.status = "in_progress"
    THEN [t EXCEPT !.status = status,
                   !.accumulatedMs = Coalesce(t.accumulatedMs, 0)
                       + (IF Truthy(t.startedAt) THEN at - t.startedAt ELSE 0),
                   !.startedAt = Null]
    ELSE IF status = "in_progress"
    THEN [t EXCEPT !.status = status, !.startedAt = at,
                   !.accumulatedMs = Coalesce(t.accumulatedMs, 0)]
    ELSE [t EXCEPT !.status = status]

\* mutant: a move between todo and completed stamps startedAt as a move into
\* in_progress does
TransitionStampsEveryMove(t, status, at) ==
    IF t.status = status
    THEN IF status = "in_progress"
         THEN [t EXCEPT !.startedAt = Coalesce(t.startedAt, at),
                        !.accumulatedMs = Coalesce(t.accumulatedMs, 0)]
         ELSE t
    ELSE IF t.status = "in_progress"
    THEN [t EXCEPT !.status = status,
                   !.accumulatedMs = Coalesce(t.accumulatedMs, 0)
                       + (IF Truthy(t.startedAt) THEN at - t.startedAt ELSE 0),
                   !.startedAt = Null]
    ELSE [t EXCEPT !.status = status, !.startedAt = at,
                   !.accumulatedMs = Coalesce(t.accumulatedMs, 0)]

\* mutant: leaving in_progress keeps startedAt
TransitionKeepsStartedAt(t, status, at) ==
    IF t.status = status
    THEN IF status = "in_progress"
         THEN [t EXCEPT !.startedAt = Coalesce(t.startedAt, at),
                        !.accumulatedMs = Coalesce(t.accumulatedMs, 0)]
         ELSE t
    ELSE IF t.status = "in_progress"
    THEN [t EXCEPT !.status = status,
                   !.accumulatedMs = Coalesce(t.accumulatedMs, 0)
                       + (IF Truthy(t.startedAt) THEN at - t.startedAt ELSE 0)]
    ELSE IF status = "in_progress"
    THEN [t EXCEPT !.status = status, !.startedAt = at,
                   !.accumulatedMs = Coalesce(t.accumulatedMs, 0)]
    ELSE [t EXCEPT !.status = status]

transitionTask(t, status, at) ==
    IF t.status = status
    THEN IF status = "in_progress"
         THEN [t EXCEPT !.startedAt = Coalesce(t.startedAt, at),
                        !.accumulatedMs = Coalesce(t.accumulatedMs, 0)]
         ELSE t
    ELSE IF t.status = "in_progress"
    THEN [t EXCEPT !.status = status,
                   !.accumulatedMs = Coalesce(t.accumulatedMs, 0)
                       + (IF Truthy(t.startedAt) THEN at - t.startedAt ELSE 0),
                   !.startedAt = Null]
    ELSE IF status = "in_progress"
    THEN [t EXCEPT !.status = status, !.startedAt = at,
                   !.accumulatedMs = Coalesce(t.accumulatedMs, 0)]
    ELSE [t EXCEPT !.status = status]

\* ------------------------------------------------------------------ state
VARIABLES
    tasks,              \* App: useState<Task[]>
    dailyItems,         \* App: useState<DailyItem[]>
    lastSeed,           \* localStorage[LAST_SEED_KEY]; Null when never written
    isBreakActive,      \* App: set by AddPanel's onBreakChange
    suppressAutoStart,  \* App: set by AddPanel's onPostBreakHoldChange / toggle-run
    clock,              \* Date.now()
    today,              \* the calendar-day key computed from new Date()
    nextId,             \* next fresh task id (`${Date.now()}-${random}`)
    nextDailyId,        \* next fresh template id
    pomoDuration, breakDuration, longBreakDuration, longBreakEvery,
    pomoCount, pomoRunning, pomoLeft, breakRunning, breakLeft, lastTick,
    showPomoDone, showBreakConfirm, showBreakDone,
    tIn, tTarget, tAt, tOut, tAt2, tOut2, tPhase,  \* transitionTask applied to drawn inputs
    view                \* App: useState<'board' | 'stats'>

boardVars == <<tasks, dailyItems, lastSeed, today, nextId, nextDailyId>>

flagVars == <<isBreakActive, suppressAutoStart>>

settingVars == <<pomoDuration, breakDuration, longBreakDuration, longBreakEvery>>

timerVars == <<pomoCount, pomoRunning, pomoLeft, breakRunning, breakLeft, lastTick,
               showPomoDone, showBreakConfirm, showBreakDone>>

fnVars == <<tIn, tTarget, tAt, tOut, tAt2, tOut2, tPhase>>

vars == <<boardVars, flagVars, clock, settingVars, timerVars, fnVars, view>>

\* ---------------------------------------------------------------- helpers
Range(s) == {s[i] : i \in DOMAIN s}

\* Array.prototype.findIndex by id, 1-based; 0 when absent
FindIndex(ts, id) ==
    IF \E i \in DOMAIN ts : ts[i].id = id
    THEN CHOOSE i \in DOMAIN ts : ts[i].id = id /\ \A j \in 1..(i - 1) : ts[j].id # id
    ELSE 0

\* arr.splice(i, 1)
RemoveAt(s, i) == SubSeq(s, 1, i - 1) \o SubSeq(s, i + 1, Len(s))

\* arr.splice(i, 0, x), i 1-based: x ends up at index i
InsertAt(s, i, x) == SubSeq(s, 1, i - 1) \o <<x>> \o SubSeq(s, i, Len(s))

\* the task literal of addTaskFromPanel, addDaily and the seeding effect
NewTask(id, title, origin, originId) ==
    [id |-> id, title |-> title, status |-> "todo", origin |-> origin,
     originId |-> originId, startedAt |-> Null, accumulatedMs |-> 0,
     paused |-> FALSE, subtasks |-> <<>>]

\* mutant: the fold forgets the time accumulated before this run
FoldForgetsAccumulated(t, at) ==
    [t EXCEPT !.accumulatedMs = IF Truthy(t.startedAt) THEN at - t.startedAt ELSE 0,
              !.startedAt = Null]

\* acc = (t.accumulatedMs ?? 0) + (t.startedAt ? at - t.startedAt : 0); startedAt: null
Fold(t, at) ==
    [t EXCEPT !.accumulatedMs = Coalesce(t.accumulatedMs, 0)
                  + (IF Truthy(t.startedAt) THEN at - t.startedAt ELSE 0),
              !.startedAt = Null]

\* --------------------------------------------------- App: effects on tasks
\* mutant: during a break the running tasks are left running
RunnerEffectIgnoresBreak(ts, brk, hold, at) ==
    IF brk \/ hold THEN ts
    ELSE IF ~\E i \in DOMAIN ts : ts[i].status = "in_progress" /\ ~ts[i].paused
    THEN ts
    ELSE LET first == CHOOSE i \in DOMAIN ts :
                         /\ ts[i].status = "in_progress" /\ ~ts[i].paused
                         /\ \A j \in 1..(i - 1) :
                               ~(ts[j].status = "in_progress" /\ ~ts[j].paused)
             runnerId == ts[first].id
         IN  [i \in DOMAIN ts |->
                IF ts[i].status # "in_progress" THEN ts[i]
                ELSE IF ts[i].id = runnerId
                THEN IF ts[i].paused THEN ts[i]
                     ELSE IF ~Truthy(ts[i].startedAt)
                     THEN [ts[i] EXCEPT !.startedAt = at,
                                        !.accumulatedMs = Coalesce(ts[i].accumulatedMs, 0)]
                     ELSE ts[i]
                ELSE IF Truthy(ts[i].startedAt) THEN Fold(ts[i], at)
                ELSE ts[i]]

\* mutant: the runner is the last non-paused in_progress task, not the first
RunnerEffectPicksLast(ts, brk, hold, at) ==
    IF brk
    THEN [i \in DOMAIN ts |->
            IF ts[i].status = "in_progress" /\ Truthy(ts[i].startedAt)
            THEN Fold(ts[i], at) ELSE ts[i]]
    ELSE IF hold THEN ts
    ELSE IF ~\E i \in DOMAIN ts : ts[i].status = "in_progress" /\ ~ts[i].paused
    THEN ts
    ELSE LET last == CHOOSE i \in DOMAIN ts :
                         /\ ts[i].status = "in_progress" /\ ~ts[i].paused
                         /\ \A j \in (i + 1)..Len(ts) :
                               ~(ts[j].status = "in_progress" /\ ~ts[j].paused)
             runnerId == ts[last].id
         IN  [i \in DOMAIN ts |->
                IF ts[i].status # "in_progress" THEN ts[i]
                ELSE IF ts[i].id = runnerId
                THEN IF ts[i].paused THEN ts[i]
                     ELSE IF ~Truthy(ts[i].startedAt)
                     THEN [ts[i] EXCEPT !.startedAt = at,
                                        !.accumulatedMs = Coalesce(ts[i].accumulatedMs, 0)]
                     ELSE ts[i]
                ELSE IF Truthy(ts[i].startedAt) THEN Fold(ts[i], at)
                ELSE ts[i]]

\* mutant: the effect enforces the runner during the post-break hold as well
RunnerEffectIgnoresHold(ts, brk, hold, at) ==
    IF brk
    THEN [i \in DOMAIN ts |->
            IF ts[i].status = "in_progress" /\ Truthy(ts[i].startedAt)
            THEN Fold(ts[i], at) ELSE ts[i]]
    ELSE IF ~\E i \in DOMAIN ts : ts[i].status = "in_progress" /\ ~ts[i].paused
    THEN ts
    ELSE LET first == CHOOSE i \in DOMAIN ts :
                         /\ ts[i].status = "in_progress" /\ ~ts[i].paused
                         /\ \A j \in 1..(i - 1) :
                               ~(ts[j].status = "in_progress" /\ ~ts[j].paused)
             runnerId == ts[first].id
         IN  [i \in DOMAIN ts |->
                IF ts[i].status # "in_progress" THEN ts[i]
                ELSE IF ts[i].id = runnerId
                THEN IF ~Truthy(ts[i].startedAt)
                     THEN [ts[i] EXCEPT !.startedAt = at,
                                        !.accumulatedMs = Coalesce(ts[i].accumulatedMs, 0)]
                     ELSE ts[i]
                ELSE IF Truthy(ts[i].startedAt) THEN Fold(ts[i], at)
                ELSE ts[i]]

\* mutant: the effect stamps the runner with the current time on every pass
RunnerEffectRestartsClock(ts, brk, hold, at) ==
    IF brk
    THEN [i \in DOMAIN ts |->
            IF ts[i].status = "in_progress" /\ Truthy(ts[i].startedAt)
            THEN Fold(ts[i], at) ELSE ts[i]]
    ELSE IF hold THEN ts
    ELSE IF ~\E i \in DOMAIN ts : ts[i].status = "in_progress" /\ ~ts[i].paused
    THEN ts
    ELSE LET first == CHOOSE i \in DOMAIN ts :
                         /\ ts[i].status = "in_progress" /\ ~ts[i].paused
                         /\ \A j \in 1..(i - 1) :
                               ~(ts[j].status = "in_progress" /\ ~ts[j].paused)
             runnerId == ts[first].id
         IN  [i \in DOMAIN ts |->
                IF ts[i].status # "in_progress" THEN ts[i]
                ELSE IF ts[i].id = runnerId
                THEN IF ts[i].paused THEN ts[i]
                     ELSE [ts[i] EXCEPT !.startedAt = at,
                                        !.accumulatedMs = Coalesce(ts[i].accumulatedMs, 0)]
                ELSE IF Truthy(ts[i].startedAt) THEN Fold(ts[i], at)
                ELSE ts[i]]

\* mutant: the effect stops the other tasks but never starts the designated runner
RunnerEffectOnlyStops(ts, brk, hold, at) ==
    IF brk
    THEN [i \in DOMAIN ts |->
            IF ts[i].status = "in_progress" /\ Truthy(ts[i].startedAt)
            THEN Fold(ts[i], at) ELSE ts[i]]
    ELSE IF hold THEN ts
    ELSE IF ~\E i \in DOMAIN ts : ts[i].status = "in_progress" /\ ~ts[i].paused
    THEN ts
    ELSE LET first == CHOOSE i \in DOMAIN ts :
                         /\ ts[i].status = "in_progress" /\ ~ts[i].paused
                         /\ \A j \in 1..(i - 1) :
                               ~(ts[j].status = "in_progress" /\ ~ts[j].paused)
             runnerId == ts[first].id
         IN  [i \in DOMAIN ts |->
                IF ts[i].status # "in_progress" THEN ts[i]
                ELSE IF ts[i].id = runnerId THEN ts[i]
                ELSE IF Truthy(ts[i].startedAt) THEN Fold(ts[i], at)
                ELSE ts[i]]

\* The runner-enforcement effect, deps [tasks, isBreakActive, suppressAutoStart]:
\* one pass over `ts`; a second pass changes nothing, so this is the state
\* React settles in.
RunnerEffect(ts, brk, hold, at) ==
    IF brk
    THEN [i \in DOMAIN ts |->
            IF ts[i].status = "in_progress" /\ Truthy(ts[i].startedAt)
            THEN Fold(ts[i], at) ELSE ts[i]]
    ELSE IF hold THEN ts
    ELSE IF ~\E i \in DOMAIN ts : ts[i].status = "in_progress" /\ ~ts[i].paused
    THEN ts
    ELSE LET first == CHOOSE i \in DOMAIN ts :
                         /\ ts[i].status = "in_progress" /\ ~ts[i].paused
                         /\ \A j \in 1..(i - 1) :
                               ~(ts[j].status = "in_progress" /\ ~ts[j].paused)
             runnerId == ts[first].id
         IN  [i \in DOMAIN ts |->
                IF ts[i].status # "in_progress" THEN ts[i]
                ELSE IF ts[i].id = runnerId
                THEN IF ts[i].paused THEN ts[i]
                     ELSE IF ~Truthy(ts[i].startedAt)
                     THEN [ts[i] EXCEPT !.startedAt = at,
                                        !.accumulatedMs = Coalesce(ts[i].accumulatedMs, 0)]
                     ELSE ts[i]
                ELSE IF Truthy(ts[i].startedAt) THEN Fold(ts[i], at)
                ELSE ts[i]]

\* Whether the seeding effect materializes: last !== todayKey && dailyItems.length > 0
SeedDue(items, marker, day) == marker # day /\ Len(items) > 0

\* mutant: the seeding effect ignores the stored marker
SeedTasksIgnoresMarker(ts, items, marker, day, firstId) ==
    IF Len(items) > 0
    THEN [i \in 1..Len(items) |->
            NewTask(firstId + i - 1, items[i].title, "daily", items[i].id)] \o ts
    ELSE ts

\* mutant: the seeded tasks are appended after the existing ones
SeedTasksAppends(ts, items, marker, day, firstId) ==
    IF SeedDue(items, marker, day)
    THEN ts \o [i \in 1..Len(items) |->
            NewTask(firstId + i - 1, items[i].title, "daily", items[i].id)]
    ELSE ts

\* The seeding effect's setTasks: [...dailyItems.map(...), ...prev]
SeedTasks(ts, items, marker, day, firstId) ==
    IF SeedDue(items, marker, day)
    THEN [i \in 1..Len(items) |->
            NewTask(firstId + i - 1, items[i].title, "daily", items[i].id)] \o ts
    ELSE ts

\* ------------------------------------------------------ App: state updates
\* mutant: updateStatus clears paused whatever the new status
UpdateStatusClearsPaused(ts, id, status, at) ==
    [i \in DOMAIN ts |->
        IF ts[i].id = id
        THEN [transitionTask(ts[i], status, at) EXCEPT !.paused = FALSE]
        ELSE ts[i]]

\* updateStatus's map over prev
updateStatus(ts, id, status, at) ==
    [i \in DOMAIN ts |->
        IF ts[i].id = id
        THEN [transitionTask(ts[i], status, at) EXCEPT
                 !.paused = IF status = "in_progress" THEN FALSE ELSE ts[i].paused]
        ELSE ts[i]]

\* mutant: the dragged card is inserted without being taken out first
DropOnTaskLeavesCopy(ts, activeId, overId, at) ==
    LET fromIndex == FindIndex(ts, activeId)
        overTask == ts[FindIndex(ts, overId)]
    IN  IF fromIndex = 0 THEN ts
        ELSE LET item == [transitionTask(ts[fromIndex], overTask.status, at) EXCEPT
                             !.paused = IF overTask.status = "in_progress"
                                        THEN FALSE ELSE ts[fromIndex].paused]
                 found == FindIndex(ts, overTask.id)
                 toIndex == IF found = 0 THEN 1 ELSE found
             IN  InsertAt(ts, toIndex, item)

\* mutant: the dragged card is put back after the card it was dropped on
DropOnTaskInsertsAfter(ts, activeId, overId, at) ==
    LET fromIndex == FindIndex(ts, activeId)
        overTask == ts[FindIndex(ts, overId)]
    IN  IF fromIndex = 0 THEN ts
        ELSE LET item == [transitionTask(ts[fromIndex], overTask.status, at) EXCEPT
                             !.paused = IF overTask.status = "in_progress"
                                        THEN FALSE ELSE ts[fromIndex].paused]
                 arr == RemoveAt(ts, fromIndex)
                 found == FindIndex(arr, overTask.id)
                 toIndex == IF found = 0 THEN 1 ELSE found + 1
             IN  InsertAt(arr, toIndex, item)

\* onDragEnd, dropped on a card: the setTasks updater (overTask found in `ts`)
dropOnTask(ts, activeId, overId, at) ==
    LET fromIndex == FindIndex(ts, activeId)
        overTask == ts[FindIndex(ts, overId)]
    IN  IF fromIndex = 0 THEN ts
        ELSE LET item == [transitionTask(ts[fromIndex], overTask.status, at) EXCEPT
                             !.paused = IF overTask.status = "in_progress"
                                        THEN FALSE ELSE ts[fromIndex].paused]
                 arr == RemoveAt(ts, fromIndex)
                 found == FindIndex(arr, overTask.id)
                 toIndex == IF found = 0 THEN 1 ELSE found
             IN  InsertAt(arr, toIndex, item)

\* mutant: pausing folds the elapsed time but leaves startedAt in place
ToggleRunPauseKeepsClock(ts, id, at) ==
    [i \in DOMAIN ts |->
        IF ts[i].id # id THEN ts[i]
        ELSE IF ts[i].status # "in_progress" THEN ts[i]
        ELSE IF ts[i].paused \/ ~Truthy(ts[i].startedAt)
        THEN [ts[i] EXCEPT !.paused = FALSE, !.startedAt = at]
        ELSE [ts[i] EXCEPT !.paused = TRUE,
                           !.accumulatedMs = Coalesce(ts[i].accumulatedMs, 0)
                               + (at - ts[i].startedAt)]]

\* mutant: pausing drops the time elapsed since startedAt
ToggleRunDropsElapsed(ts, id, at) ==
    [i \in DOMAIN ts |->
        IF ts[i].id # id THEN ts[i]
        ELSE IF ts[i].status # "in_progress" THEN ts[i]
        ELSE IF ts[i].paused \/ ~Truthy(ts[i].startedAt)
        THEN [ts[i] EXCEPT !.paused = FALSE, !.startedAt = at]
        ELSE [ts[i] EXCEPT !.paused = TRUE, !.startedAt = Null]]

\* onToggleRun's map over prev
toggleRun(ts, id, at) ==
    [i \in DOMAIN ts |->
        IF ts[i].id # id THEN ts[i]
        ELSE IF ts[i].status # "in_progress" THEN ts[i]
        ELSE IF ts[i].paused \/ ~Truthy(ts[i].startedAt)
        THEN [ts[i] EXCEPT !.paused = FALSE, !.startedAt = at]
        ELSE [Fold(ts[i], at) EXCEPT !.paused = TRUE]]

\* onToggleRun's resume branch ran for some task: setSuppressAutoStart(false)
toggleResumes(ts, id) ==
    \E i \in DOMAIN ts :
        /\ ts[i].id = id /\ ts[i].status = "in_progress"
        /\ (ts[i].paused \/ ~Truthy(ts[i].startedAt))

\* The state React settles in after a handler: the handler left `ts`, `items`
\* and the flags `brk` (isBreakActive follows breakRunning through AddPanel's
\* onBreakChange effect) and `hold`; then the runner-enforcement effect runs,
\* the seeding effect runs if dailyItems was set (`seedRuns`), and the
\* runner-enforcement effect runs again on the seeded collection.
\* `used` is the number of task ids the handler itself consumed.
Settle(ts, items, seedRuns, used, brk, hold) ==
    LET enforced == RunnerEffect(ts, brk, hold, clock)
        due == seedRuns /\ SeedDue(items, lastSeed, today)
        seeded == IF seedRuns
                  THEN SeedTasks(enforced, items, lastSeed, today, nextId + used)
                  ELSE enforced
        consumed == used + (IF due THEN Len(items) ELSE 0)
    IN  /\ tasks' = RunnerEffect(seeded, brk, hold, clock)
        /\ dailyItems' = items
        /\ lastSeed' = IF due THEN today ELSE lastSeed
        /\ nextId' = nextId + consumed
        /\ isBreakActive' = brk
        /\ suppressAutoStart' = hold

\* ------------------------------------------------------- App: grouped
\* position.get(id): the Map filled by tasks.forEach keeps the last index of an id
PositionOf(ts, id) ==
    CHOOSE i \in DOMAIN ts : ts[i].id = id /\ \A j \in (i + 1)..Len(ts) : ts[j].id # id

\* mutant: the comparator puts the daily tasks last
CompareTodoDailyLast(ts, a, b) ==
    LET aDaily == a.origin = "daily"
        bDaily == b.origin = "daily"
    IN  IF aDaily # bDaily THEN (IF aDaily THEN 1 ELSE -1)
        ELSE PositionOf(ts, a.id) - PositionOf(ts, b.id)

\* the comparator of list.sort in the todo group: negative when a goes first
CompareTodo(ts, a, b) ==
    LET aDaily == a.origin = "daily"
        bDaily == b.origin = "daily"
    IN  IF aDaily # bDaily THEN (IF aDaily THEN -1 ELSE 1)
        ELSE PositionOf(ts, a.id) - PositionOf(ts, b.id)

RECURSIVE InsertTodo(_, _, _)
\* x put into the sorted list before the first element it does not follow
InsertTodo(ts, sorted, x) ==
    IF sorted = <<>> THEN <<x>>
    ELSE IF CompareTodo(ts, x, Head(sorted)) < 0 THEN <<x>> \o sorted
    ELSE <<Head(sorted)>> \o InsertTodo(ts, Tail(sorted), x)

RECURSIVE SortTodo(_, _)
\* list.sort(comparator): a stable sort, element by element
SortTodo(ts, list) ==
    IF list = <<>> THEN <<>>
    ELSE InsertTodo(ts, SortTodo(ts, SubSeq(list, 1, Len(list) - 1)), list[Len(list)])

\* grouped: tasks.filter by status, the todo list sorted
grouped(ts) ==
    [todo |-> SortTodo(ts, SelectSeq(ts, LAMBDA t : t.status = "todo")),
     in_progress |-> SelectSeq(ts, LAMBDA t : t.status = "in_progress"),
     completed |-> SelectSeq(ts, LAMBDA t : t.status = "completed")]

\* ---------------------------------------------------------------- inputs
\* what the user types into a title field: empty, blank, padded and plain titles
RawTitles == {<<>>, <<" ">>, <<"a">>, <<" ", "b">>, <<"a", " ">>}

\* ids a handler can be called with: every id ever issued and one never issued
TaskIds == 1..(MaxIds + 1)

SeedTaskIds == 1..(MaxSeedIds + 1)

DailyIds == 1..(MaxDailyIds + 1)

\* ------------------------------------------------------- App: user actions
\* mutant: the new task is appended after the existing ones
AddTaskAppends(raw) ==
    LET trimmed == Trim(raw)
    IN  IF trimmed = <<>> THEN UNCHANGED vars
        ELSE /\ Settle(tasks \o <<NewTask(nextId, trimmed, "manual", Null)>>,
                       dailyItems, FALSE, 1, isBreakActive, suppressAutoStart)
             /\ UNCHANGED <<today, nextDailyId, clock, settingVars, timerVars, fnVars, view>>

\* addTaskFromPanel (addTask is the same code on the unused `title` state)
AddTask(raw) ==
    LET trimmed == Trim(raw)
    IN  IF trimmed = <<>> THEN UNCHANGED vars
        ELSE /\ Settle(<<NewTask(nextId, trimmed, "manual", Null)>> \o tasks,
                       dailyItems, FALSE, 1, isBreakActive, suppressAutoStart)
             /\ UNCHANGED <<today, nextDailyId, clock, settingVars, timerVars, fnVars, view>>

\* mutant: removeTask by findIndex and splice, which takes the last task out
\* when the id is not found (splice(-1, 1))
RemoveTaskSplices(id) ==
    /\ Settle(IF FindIndex(tasks, id) # 0 THEN RemoveAt(tasks, FindIndex(tasks, id))
              ELSE SubSeq(tasks, 1, Len(tasks) - 1),
              dailyItems, FALSE, 0, isBreakActive, suppressAutoStart)
    /\ UNCHANGED <<today, nextDailyId, clock, settingVars, timerVars, fnVars, view>>

RemoveTask(id) ==
    /\ Settle(SelectSeq(tasks, LAMBDA t : t.id # id),
              dailyItems, FALSE, 0, isBreakActive, suppressAutoStart)
    /\ UNCHANGED <<today, nextDailyId, clock, settingVars, timerVars, fnVars, view>>

\* mutant: a drop on the column the task is already in is handed to updateStatus too
DropOnColumnAlways(id, target) ==
    IF FindIndex(tasks, id) # 0
    THEN /\ Settle(updateStatus(tasks, id, target, clock),
                   dailyItems, FALSE, 0, isBreakActive, suppressAutoStart)
         /\ UNCHANGED <<today, nextDailyId, clock, settingVars, timerVars, fnVars, view>>
    ELSE UNCHANGED vars

\* onDragEnd, dropped outside every column and card: `if (!over) return;`
DropOutside(id) == UNCHANGED vars

\* onDragEnd, dropped on a column
DropOnColumn(id, target) ==
    LET from == FindIndex(tasks, id)
    IN  IF from # 0 /\ tasks[from].status # target
        THEN /\ Settle(updateStatus(tasks, id, target, clock),
                       dailyItems, FALSE, 0, isBreakActive, suppressAutoStart)
             /\ UNCHANGED <<today, nextDailyId, clock, settingVars, timerVars, fnVars, view>>
        ELSE UNCHANGED vars

\* onDragEnd, dropped on a card
DropOnTask(activeId, overId) ==
    IF FindIndex(tasks, overId) = 0 THEN UNCHANGED vars
    ELSE /\ Settle(dropOnTask(tasks, activeId, overId, clock),
                   dailyItems, FALSE, 0, isBreakActive, suppressAutoStart)
         /\ UNCHANGED <<today, nextDailyId, clock, settingVars, timerVars, fnVars, view>>

ToggleRun(id) ==
    /\ Settle(toggleRun(tasks, id, clock), dailyItems, FALSE, 0, isBreakActive,
              IF toggleResumes(tasks, id) THEN FALSE ELSE suppressAutoStart)
    /\ UNCHANGED <<today, nextDailyId, clock, settingVars, timerVars, fnVars, view>>

\* mutant: updateTitle renames the sibling tasks but not the template
UpdateTitleSkipsTemplate(id, raw) ==
    LET title == Trim(raw)
        cur == FindIndex(tasks, id)
    IN  IF title = <<>> \/ cur = 0 THEN UNCHANGED vars
        ELSE /\ Settle([i \in DOMAIN tasks |->
                          IF (tasks[i].origin = "daily" /\ tasks[cur].origin = "daily"
                              /\ tasks[i].originId = tasks[cur].originId)
                             \/ tasks[i].id = id
                          THEN [tasks[i] EXCEPT !.title = title]
                          ELSE tasks[i]],
                       dailyItems, FALSE, 0, isBreakActive, suppressAutoStart)
             /\ UNCHANGED <<today, nextDailyId, clock, settingVars, timerVars, fnVars, view>>

UpdateTitle(id, raw) ==
    LET title == Trim(raw)
        cur == FindIndex(tasks, id)
    IN  IF title = <<>> \/ cur = 0 THEN UNCHANGED vars
        ELSE IF tasks[cur].origin = "daily" /\ tasks[cur].originId # Null
        THEN /\ Settle([i \in DOMAIN tasks |->
                          IF tasks[i].origin = "daily"
                             /\ tasks[i].originId = tasks[cur].originId
                          THEN [tasks[i] EXCEPT !.title = title]
                          ELSE IF tasks[i].id = id
                          THEN [tasks[i] EXCEPT !.title = title]
                          ELSE tasks[i]],
                       [i \in DOMAIN dailyItems |->
                          IF dailyItems[i].id = tasks[cur].originId
                          THEN [dailyItems[i] EXCEPT !.title = title]
                          ELSE dailyItems[i]],
                       TRUE, 0, isBreakActive, suppressAutoStart)
             /\ UNCHANGED <<today, nextDailyId, clock, settingVars, timerVars, fnVars, view>>
        ELSE /\ Settle([i \in DOMAIN tasks |->
                          IF tasks[i].id = id
                          THEN [tasks[i] EXCEPT !.title = title] ELSE tasks[i]],
                       dailyItems, FALSE, 0, isBreakActive, suppressAutoStart)
             /\ UNCHANGED <<today, nextDailyId, clock, settingVars, timerVars, fnVars, view>>

\* a fresh subtask id: `${Date.now()}-${Math.random()...}` differs from every
\* id in the collection
NextSubId(ts) ==
    LET used == UNION {{ts[i].subtasks[k].id : k \in DOMAIN ts[i].subtasks} :
                          i \in DOMAIN ts}
    IN  IF used = {} THEN 1
        ELSE 1 + CHOOSE m \in used : \A u \in used : u <= m

AddSubtask(taskId, raw) ==
    LET t == Trim(raw)
        sid == NextSubId(tasks)
    IN  IF t = <<>> THEN UNCHANGED vars
        ELSE /\ Settle([i \in DOMAIN tasks |->
                          IF tasks[i].id = taskId
                          \* x.subtasks ?? []: every task of the model has the field
                          THEN [tasks[i] EXCEPT !.subtasks =
                                   tasks[i].subtasks
                                   \o <<[id |-> sid, title |-> t, done |-> FALSE]>>]
                          ELSE tasks[i]],
                       dailyItems, FALSE, 0, isBreakActive, suppressAutoStart)
             /\ UNCHANGED <<today, nextDailyId, clock, settingVars, timerVars, fnVars, view>>

\* ids a subtask handler can be called with: the ids issued and one never issued
SubIds == 1..(MaxSubtasks + 1)

ToggleSubtask(taskId, subId) ==
    /\ Settle([i \in DOMAIN tasks |->
                 IF tasks[i].id = taskId
                 THEN [tasks[i] EXCEPT !.subtasks =
                          [k \in DOMAIN tasks[i].subtasks |->
                              IF tasks[i].subtasks[k].id = subId
                              THEN [tasks[i].subtasks[k] EXCEPT
                                       !.done = ~tasks[i].subtasks[k].done]
                              ELSE tasks[i].subtasks[k]]]
                 ELSE tasks[i]],
              dailyItems, FALSE, 0, isBreakActive, suppressAutoStart)
    /\ UNCHANGED <<today, nextDailyId, clock, settingVars, timerVars, fnVars, view>>

RemoveSubtask(taskId, subId) ==
    /\ Settle([i \in DOMAIN tasks |->
                 IF tasks[i].id = taskId
                 THEN [tasks[i] EXCEPT !.subtasks =
                          SelectSeq(tasks[i].subtasks, LAMBDA u : u.id # subId)]
                 ELSE tasks[i]],
              dailyItems, FALSE, 0, isBreakActive, suppressAutoStart)
    /\ UNCHANGED <<today, nextDailyId, clock, settingVars, timerVars, fnVars, view>>

\* ------------------------------------------------- Daily Template Seeder
\* mutant: addDaily leaves the new template's task to the seeding effect alone
AddDailyNeverJoins(raw) ==
    LET trimmed == Trim(raw)
        id == nextDailyId
    IN  IF trimmed = <<>> THEN UNCHANGED vars
        ELSE /\ Settle(tasks, <<[id |-> id, title |-> trimmed]>> \o dailyItems,
                       TRUE, 0, isBreakActive, suppressAutoStart)
             /\ nextDailyId' = nextDailyId + 1
             /\ UNCHANGED <<today, clock, settingVars, timerVars, fnVars, view>>

AddDaily(raw) ==
    LET trimmed == Trim(raw)
        id == nextDailyId
        joins == lastSeed = today
    IN  IF trimmed = <<>> THEN UNCHANGED vars
        ELSE /\ Settle(IF joins
                       THEN <<NewTask(nextId, trimmed, "daily", id)>> \o tasks
                       ELSE tasks,
                       <<[id |-> id, title |-> trimmed]>> \o dailyItems,
                       TRUE, IF joins THEN 1 ELSE 0,
                       isBreakActive, suppressAutoStart)
             /\ nextDailyId' = nextDailyId + 1
             /\ UNCHANGED <<today, clock, settingVars, timerVars, fnVars, view>>

\* mutant: removeDaily takes the template out and leaves its tasks on the board
RemoveDailyKeepsTasks(id) ==
    /\ Settle(tasks, SelectSeq(dailyItems, LAMBDA d : d.id # id),
              TRUE, 0, isBreakActive, suppressAutoStart)
    /\ UNCHANGED <<today, nextDailyId, clock, settingVars, timerVars, fnVars, view>>

\* mutant: removeDaily spares the completed tasks of the template
RemoveDailySparesCompleted(id) ==
    /\ Settle(SelectSeq(tasks, LAMBDA t : ~(t.origin = "daily" /\ t.originId = id
                                              /\ t.status # "completed")),
              SelectSeq(dailyItems, LAMBDA d : d.id # id),
              TRUE, 0, isBreakActive, suppressAutoStart)
    /\ UNCHANGED <<today, nextDailyId, clock, settingVars, timerVars, fnVars, view>>

RemoveDaily(id) ==
    /\ Settle(SelectSeq(tasks, LAMBDA t : ~(t.origin = "daily" /\ t.originId = id)),
              SelectSeq(dailyItems, LAMBDA d : d.id # id),
              TRUE, 0, isBreakActive, suppressAutoStart)
    /\ UNCHANGED <<today, nextDailyId, clock, settingVars, timerVars, fnVars, view>>

\* midnight passes: new Date() yields the next calendar day
NextDay ==
    /\ today < MaxDay
    /\ today' = today + 1
    /\ UNCHANGED <<tasks, dailyItems, lastSeed, nextId, nextDailyId, flagVars, clock,
                   settingVars, timerVars, fnVars, view>>

\* ------------------------------------------- AddPanel: Pomodoro/break timer
\* every timer handler leaves the board to the effects of the new flags
Board(brk, hold) ==
    /\ Settle(tasks, dailyItems, FALSE, 0, brk, hold)
    /\ UNCHANGED <<today, nextDailyId, clock, settingVars, fnVars, view>>

\* mutant: pressed during a break, the button switches to focus without asking
PomoButtonSwitchesAtOnce ==
    IF pomoRunning
    THEN /\ pomoRunning' = FALSE
         /\ UNCHANGED <<pomoCount, pomoLeft, breakRunning, breakLeft, lastTick,
                        showPomoDone, showBreakConfirm, showBreakDone>>
         /\ Board(breakRunning, suppressAutoStart)
    ELSE /\ breakRunning' = FALSE
         /\ lastTick' = clock
         /\ pomoRunning' = TRUE
         /\ UNCHANGED <<pomoCount, pomoLeft, breakLeft,
                        showPomoDone, showBreakConfirm, showBreakDone>>
         /\ Board(FALSE, suppressAutoStart)

\* the Pomodoro start/pause button
PomoButton ==
    IF pomoRunning
    THEN /\ pomoRunning' = FALSE
         /\ UNCHANGED <<pomoCount, pomoLeft, breakRunning, breakLeft, lastTick,
                        showPomoDone, showBreakConfirm, showBreakDone>>
         /\ Board(breakRunning, suppressAutoStart)
    ELSE IF breakRunning
    THEN /\ showBreakConfirm' = TRUE
         /\ UNCHANGED <<pomoCount, pomoRunning, pomoLeft, breakRunning, breakLeft,
                        lastTick, showPomoDone, showBreakDone>>
         /\ Board(breakRunning, suppressAutoStart)
    ELSE /\ breakRunning' = FALSE
         /\ lastTick' = clock
         /\ pomoRunning' = TRUE
         /\ UNCHANGED <<pomoCount, pomoLeft, breakLeft,
                        showPomoDone, showBreakConfirm, showBreakDone>>
         /\ Board(FALSE, suppressAutoStart)

\* focus-done prompt: "Daha sonra"
PomoDoneLater ==
    /\ showPomoDone
    /\ showPomoDone' = FALSE
    /\ pomoLeft' = pomoDuration
    /\ UNCHANGED <<pomoCount, pomoRunning, breakRunning, breakLeft, lastTick,
                   showBreakConfirm, showBreakDone>>
    /\ Board(breakRunning, suppressAutoStart)

\* focus-done prompt: "Kisa dinlenmeye gec"
PomoDoneShortBreak ==
    /\ showPomoDone
    /\ showPomoDone' = FALSE
    /\ pomoLeft' = pomoDuration
    /\ breakLeft' = breakDuration
    /\ pomoRunning' = FALSE
    /\ breakRunning' = TRUE
    /\ lastTick' = clock
    /\ UNCHANGED <<pomoCount, showBreakConfirm, showBreakDone>>
    /\ Board(TRUE, suppressAutoStart)

\* a long-break button rendered whatever the cycle counter says
PomoDoneLongBreakAlways ==
    /\ showPomoDone
    /\ showPomoDone' = FALSE
    /\ pomoLeft' = pomoDuration
    /\ breakLeft' = longBreakDuration
    /\ pomoRunning' = FALSE
    /\ breakRunning' = TRUE
    /\ lastTick' = clock
    /\ UNCHANGED <<pomoCount, showBreakConfirm, showBreakDone>>
    /\ Board(TRUE, suppressAutoStart)

\* focus-done prompt: "Uzun dinlenmeye gec", rendered only on the cadence
PomoDoneLongBreak ==
    /\ showPomoDone
    /\ pomoCount > 0 /\ pomoCount % longBreakEvery = 0
    /\ showPomoDone' = FALSE
    /\ pomoLeft' = pomoDuration
    /\ breakLeft' = longBreakDuration
    /\ pomoRunning' = FALSE
    /\ breakRunning' = TRUE
    /\ lastTick' = clock
    /\ UNCHANGED <<pomoCount, showBreakConfirm, showBreakDone>>
    /\ Board(TRUE, suppressAutoStart)

\* break-confirm prompt: "Iptal" (or a click on the backdrop)
BreakConfirmCancel ==
    /\ showBreakConfirm
    /\ showBreakConfirm' = FALSE
    /\ UNCHANGED <<pomoCount, pomoRunning, pomoLeft, breakRunning, breakLeft,
                   lastTick, showPomoDone, showBreakDone>>
    /\ Board(breakRunning, suppressAutoStart)

\* break-confirm prompt: "Pomodoro'ya gec"
BreakConfirmSwitch ==
    /\ showBreakConfirm
    /\ showBreakConfirm' = FALSE
    /\ breakRunning' = FALSE
    /\ breakLeft' = breakDuration
    /\ pomoLeft' = pomoDuration
    /\ pomoRunning' = TRUE
    /\ lastTick' = clock
    /\ UNCHANGED <<pomoCount, showPomoDone, showBreakDone>>
    /\ Board(FALSE, suppressAutoStart)

\* break-done prompt: "Vazgec"; the hold stays
BreakDoneDismiss ==
    /\ showBreakDone
    /\ showBreakDone' = FALSE
    /\ UNCHANGED <<pomoCount, pomoRunning, pomoLeft, breakRunning, breakLeft,
                   lastTick, showPomoDone, showBreakConfirm>>
    /\ Board(breakRunning, suppressAutoStart)

\* break-done prompt: "Yeni Pomodoro baslat"
BreakDoneNewPomo ==
    /\ showBreakDone
    /\ showBreakDone' = FALSE
    /\ pomoLeft' = pomoDuration
    /\ pomoRunning' = TRUE
    /\ lastTick' = clock
    /\ UNCHANGED <<pomoCount, breakRunning, breakLeft, showPomoDone, showBreakConfirm>>
    /\ Board(breakRunning, FALSE)

\* mutant: a finished focus cycle is counted twice
CountCycleTwice(c) == c + 2

\* setPomoCount((c) => c + 1)
CountCycle(c) == c + 1

\* a setter that rewinds the focus countdown even while it runs
SetPomoDurationAlwaysResets(m) ==
    /\ pomoDuration' = m
    /\ pomoLeft' = m
    /\ UNCHANGED <<breakDuration, longBreakDuration, longBreakEvery, pomoCount,
                   pomoRunning, breakRunning, breakLeft, lastTick,
                   showPomoDone, showBreakConfirm, showBreakDone,
                   boardVars, flagVars, clock, fnVars, view>>

\* settings inputs, onBlur: m = Math.max(1, Number(value) || default) minutes
SetPomoDuration(m) ==
    /\ pomoDuration' = m
    /\ pomoLeft' = IF ~pomoRunning THEN m ELSE pomoLeft
    /\ UNCHANGED <<breakDuration, longBreakDuration, longBreakEvery, pomoCount,
                   pomoRunning, breakRunning, breakLeft, lastTick,
                   showPomoDone, showBreakConfirm, showBreakDone,
                   boardVars, flagVars, clock, fnVars, view>>

SetBreakDuration(m) ==
    /\ breakDuration' = m
    /\ breakLeft' = IF ~breakRunning THEN m ELSE breakLeft
    /\ UNCHANGED <<pomoDuration, longBreakDuration, longBreakEvery, pomoCount,
                   pomoRunning, pomoLeft, breakRunning, lastTick,
                   showPomoDone, showBreakConfirm, showBreakDone,
                   boardVars, flagVars, clock, fnVars, view>>

SetLongBreakDuration(m) ==
    /\ longBreakDuration' = m
    /\ UNCHANGED <<pomoDuration, breakDuration, longBreakEvery, timerVars,
                   boardVars, flagVars, clock, fnVars, view>>

SetLongBreakEvery(v) ==
    /\ longBreakEvery' = v
    /\ UNCHANGED <<pomoDuration, breakDuration, longBreakDuration, timerVars,
                   boardVars, flagVars, clock, fnVars, view>>

\* The two 1 Hz intervals fire after `delta` units of wall-clock time (a late
\* or throttled interval gives delta > 1): App's setNow, and AddPanel's countdown
\* with delta = now - lastTickRef.
Tick(delta) ==
    /\ clock + delta <= MaxTime
    /\ clock' = clock + delta
    /\ lastTick' = clock + delta
    /\ LET d == (clock + delta) - lastTick
       IN  IF pomoRunning
           THEN LET next == Max(0, pomoLeft - d)
                IN  /\ pomoLeft' = next
                    /\ pomoRunning' = (next # 0)
                    /\ pomoCount' = IF next = 0 THEN CountCycle(pomoCount) ELSE pomoCount
                    /\ showPomoDone' = IF next = 0 THEN TRUE ELSE showPomoDone
                    /\ UNCHANGED <<breakRunning, breakLeft, showBreakConfirm,
                                   showBreakDone, flagVars>>
           ELSE IF breakRunning
           THEN LET next == Max(0, breakLeft - d)
                    \* at zero the updater calls setBreakLeft(breakDuration) and
                    \* then returns next: React applies the nested set last when it
                    \* runs the updater while rendering, and the returned 0 last
                    \* when it ran the updater eagerly at dispatch
                IN  /\ breakLeft' \in IF next = 0 THEN {breakDuration, 0} ELSE {next}
                    /\ breakRunning' = (next # 0)
                    /\ showBreakDone' = IF next = 0 THEN TRUE ELSE showBreakDone
                    /\ suppressAutoStart' =
                           IF next = 0 THEN TRUE ELSE suppressAutoStart
                    /\ isBreakActive' = (next # 0)
                    /\ UNCHANGED <<pomoCount, pomoRunning, pomoLeft, showPomoDone,
                                   showBreakConfirm>>
           ELSE UNCHANGED <<pomoCount, pomoRunning, pomoLeft, breakRunning, breakLeft,
                            showPomoDone, showBreakConfirm, showBreakDone, flagVars>>
    /\ tasks' = RunnerEffect(tasks, isBreakActive', suppressAutoStart', clock')
    /\ UNCHANGED <<dailyItems, lastSeed, today, nextId, nextDailyId,
                   settingVars, fnVars, view>>

\* -------------------------------------------------------------- lifecycle
\* The page is closed and opened again: tasks, templates, the seed marker and the
\* Pomodoro settings come back from localStorage, every other state starts
\* from its initial value, and the mount effects (runner enforcement, seeding) run.
Reload ==
    /\ pomoRunning' = FALSE /\ breakRunning' = FALSE
    /\ pomoLeft' = pomoDuration /\ breakLeft' = breakDuration
    /\ lastTick' = clock
    /\ showPomoDone' = FALSE /\ showBreakConfirm' = FALSE /\ showBreakDone' = FALSE
    /\ UNCHANGED <<pomoCount, settingVars, today, nextDailyId, clock, fnVars>>
    /\ view' = "board"
    /\ Settle(tasks, dailyItems, TRUE, 0, FALSE, FALSE)

\* what localStorage holds under a key when the page is opened: the record the
\* persist effect wrote, no record (getItem gives null), or text JSON.parse rejects
RecordStates == {"ok", "absent", "corrupt"}

\* The load effect's one try block: the task record is read and parsed first, and
\* a throw from JSON.parse leaves the block before the template record is read.
LoadedTasks(taskRec) == IF taskRec = "ok" THEN tasks ELSE <<>>

LoadedDaily(taskRec, dailyRec) ==
    IF taskRec # "corrupt" /\ dailyRec = "ok" THEN dailyItems ELSE <<>>

\* The page is opened on a storage whose task and template records are in the
\* states `taskRec` and `dailyRec`: the load effect, then the persist effects
\* (which write what was loaded back), seeding and runner enforcement.
Startup(taskRec, dailyRec) ==
    /\ pomoRunning' = FALSE /\ breakRunning' = FALSE
    /\ pomoLeft' = pomoDuration /\ breakLeft' = breakDuration
    /\ lastTick' = clock
    /\ showPomoDone' = FALSE /\ showBreakConfirm' = FALSE /\ showBreakDone' = FALSE
    /\ UNCHANGED <<pomoCount, settingVars, today, nextDailyId, clock, fnVars>>
    /\ view' = "board"
    /\ Settle(LoadedTasks(taskRec), LoadedDaily(taskRec, dailyRec), TRUE, 0, FALSE, FALSE)

\* setView(to), from the header: the board view renders <DndContext> and the
\* stats view a fragment in the same place under <main>, so a change of view
\* unmounts the AddPanel of the one and mounts a new AddPanel in the other.
\* The new panel starts from its initial state (nothing running, no prompt),
\* reads the durations and the cycle counter back from storage, and its
\* onBreakChange effect reports breakRunning = false to App; App keeps its own
\* state (tasks, templates, suppressAutoStart) and enforces on the new flag.
SwitchView(to) ==
    IF to = view THEN UNCHANGED vars
    ELSE /\ view' = to
         /\ pomoRunning' = FALSE /\ breakRunning' = FALSE
         /\ pomoLeft' = pomoDuration /\ breakLeft' = breakDuration
         /\ lastTick' = clock
         /\ showPomoDone' = FALSE /\ showBreakConfirm' = FALSE /\ showBreakDone' = FALSE
         /\ Settle(tasks, dailyItems, FALSE, 0, FALSE, suppressAutoStart)
         /\ UNCHANGED <<pomoCount, settingVars, today, nextDailyId, clock, fnVars>>

InitSettings ==
    [pomoDuration |-> 1, breakDuration |-> 1, longBreakDuration |-> 2,
     longBreakEvery |-> 2]

NoTask == NewTask(0, <<>>, "manual", Null)

InitBoard ==
    /\ tasks = <<>> /\ dailyItems = <<>> /\ lastSeed = Null
    /\ isBreakActive = FALSE /\ suppressAutoStart = FALSE /\ view = "board"
    /\ clock = 1 /\ today = 1 /\ nextId = 1 /\ nextDailyId = 1
    /\ pomoDuration = InitSettings.pomoDuration
    /\ breakDuration = InitSettings.breakDuration
    /\ longBreakDuration = InitSettings.longBreakDuration
    /\ longBreakEvery = InitSettings.longBreakEvery
    /\ pomoCount = 0 /\ pomoRunning = FALSE /\ breakRunning = FALSE
    /\ pomoLeft = InitSettings.pomoDuration /\ breakLeft = InitSettings.breakDuration
    /\ lastTick = 1
    /\ showPomoDone = FALSE /\ showBreakConfirm = FALSE /\ showBreakDone = FALSE

Init ==
    /\ InitBoard
    /\ tIn = NoTask /\ tTarget = "todo" /\ tAt = 0 /\ tOut = NoTask
    /\ tAt2 = 0 /\ tOut2 = NoTask /\ tPhase = "off"

\* The timer engine: task moves, toggle-run, the clock, the Pomodoro/break timer
\* and reloads.  At most MaxIds task ids are issued.
Next ==
    \/ \E raw \in {<<"a">>} : AddTask(raw) /\ nextId' <= MaxIds + 1
    \/ \E id \in TaskIds : RemoveTask(id)
    \/ \E id \in TaskIds, target \in StatusSet : DropOnColumn(id, target)
    \/ \E a \in TaskIds, o \in TaskIds : DropOnTask(a, o)
    \/ \E id \in TaskIds : ToggleRun(id)
    \/ PomoButton
    \/ PomoDoneLater
    \/ PomoDoneShortBreak
    \/ PomoDoneLongBreak
    \/ BreakConfirmCancel
    \/ BreakConfirmSwitch
    \/ BreakDoneDismiss
    \/ BreakDoneNewPomo
    \/ \E delta \in 1..MaxDelta : Tick(delta)
    \/ Reload

Spec == Init /\ [][Next]_vars

\* The board's drag and drop and toggle handlers over time, no Pomodoro started.
NextBoard ==
    \/ \E raw \in {<<"a">>} : AddTask(raw) /\ nextId' <= MaxIds + 1
    \/ \E id \in TaskIds : RemoveTask(id)
    \/ \E id \in TaskIds : DropOutside(id)
    \/ \E id \in TaskIds, target \in StatusSet : DropOnColumn(id, target)
    \/ \E a \in TaskIds, o \in TaskIds : DropOnTask(a, o)
    \/ \E id \in TaskIds : ToggleRun(id)
    \/ \E delta \in 1..MaxDelta : Tick(delta)
    \/ Reload

SpecBoard == Init /\ [][NextBoard]_vars

\* The board's content: templates, seeding across days and reloads, titles, moves.
\* At most MaxSeedIds task ids and MaxDailyIds template ids are issued.
NextSeed ==
    \/ \E raw \in RawTitles : AddTask(raw) /\ nextId' <= MaxSeedIds + 1
    \/ \E id \in SeedTaskIds : RemoveTask(id)
    \/ \E id \in SeedTaskIds, target \in StatusSet : DropOnColumn(id, target)
    \/ \E id \in SeedTaskIds, raw \in RawTitles :
          UpdateTitle(id, raw) /\ nextId' <= MaxSeedIds + 1
    \/ \E raw \in RawTitles :
          AddDaily(raw) /\ nextId' <= MaxSeedIds + 1 /\ nextDailyId' <= MaxDailyIds + 1
    \/ \E id \in DailyIds : RemoveDaily(id) /\ nextId' <= MaxSeedIds + 1
    \/ \E id \in SeedTaskIds : ToggleRun(id)
    \/ NextDay
    \/ Reload /\ nextId' <= MaxSeedIds + 1

SpecSeed == Init /\ [][NextSeed]_vars

\* The Pomodoro/break timer on its own: the button, the three prompts, the
\* settings inputs, the clock and reloads, with an empty board.
NextTimer ==
    \/ PomoButton
    \/ PomoDoneLater
    \/ PomoDoneShortBreak
    \/ PomoDoneLongBreak
    \/ BreakConfirmCancel
    \/ BreakConfirmSwitch
    \/ BreakDoneDismiss
    \/ BreakDoneNewPomo
    \/ \E m \in 1..MaxMinutes : SetPomoDuration(m)
    \/ \E m \in 1..MaxMinutes : SetBreakDuration(m)
    \/ \E m \in 1..MaxMinutes : SetLongBreakDuration(m)
    \/ \E v \in 1..MaxMinutes : SetLongBreakEvery(v)
    \/ \E delta \in 1..MaxDelta : Tick(delta)
    \/ Reload

SpecTimer == Init /\ [][NextTimer]_vars

\* The text inputs: create, rename, add a template, add a subtask, each with
\* every raw title.
NextInput ==
    \/ \E raw \in RawTitles : AddTask(raw) /\ nextId' <= MaxIds + 1
    \/ \E id \in TaskIds, raw \in RawTitles :
          UpdateTitle(id, raw) /\ nextId' <= MaxIds + 1
    \/ \E raw \in RawTitles :
          AddDaily(raw) /\ nextId' <= MaxIds + 1 /\ nextDailyId' <= MaxDailyIds + 1
    \/ \E id \in TaskIds, raw \in RawTitles :
          /\ AddSubtask(id, raw)
          /\ \A i \in DOMAIN tasks' : Len(tasks'[i].subtasks) <= MaxSubtasks

SpecInput == Init /\ [][NextInput]_vars

\* Every handler that is addressed to a task, subtask or template by id, on a
\* board with manual and template tasks across a change of day.
NextById ==
    \/ \E raw \in {<<"a">>} : AddTask(raw) /\ nextId' <= MaxIds + 1
    \/ \E raw \in {<<"a">>} :
          AddDaily(raw) /\ nextId' <= MaxIds + 1 /\ nextDailyId' <= MaxDailyIds
    \/ \E id \in DailyIds : RemoveDaily(id) /\ nextId' <= MaxIds + 1
    \/ \E id \in TaskIds : RemoveTask(id)
    \/ \E id \in TaskIds, target \in StatusSet : DropOnColumn(id, target)
    \/ \E a \in TaskIds, o \in TaskIds : DropOnTask(a, o)
    \/ \E id \in TaskIds : ToggleRun(id)
    \/ \E id \in TaskIds, raw \in {<<"a", " ">>} :
          UpdateTitle(id, raw) /\ nextId' <= MaxIds + 1
    \/ \E id \in TaskIds, raw \in {<<"a">>} :
          /\ AddSubtask(id, raw)
          /\ \A i \in DOMAIN tasks' : Len(tasks'[i].subtasks) <= MaxSubtasks
    \/ \E id \in TaskIds, sub \in SubIds : ToggleSubtask(id, sub)
    \/ \E id \in TaskIds, sub \in SubIds : RemoveSubtask(id, sub)
    \/ NextDay

SpecById == Init /\ [][NextById]_vars

\* Sessions over a storage whose records can be missing or damaged when the page
\* is opened.
NextLoad ==
    \/ \E raw \in {<<"a">>} : AddTask(raw) /\ nextId' <= MaxSeedIds + 1
    \/ \E raw \in {<<"a">>} :
          AddDaily(raw) /\ nextId' <= MaxSeedIds + 1 /\ nextDailyId' <= MaxDailyIds + 1
    \/ \E id \in SeedTaskIds, target \in StatusSet : DropOnColumn(id, target)
    \/ NextDay
    \/ \E taskRec \in RecordStates, dailyRec \in RecordStates :
          Startup(taskRec, dailyRec) /\ nextId' <= MaxSeedIds + 1

SpecLoad == Init /\ [][NextLoad]_vars

\* The two views: tasks are moved on the board, the Pomodoro and its short break
\* run, and the header switches between board and stats.
NextView ==
    \/ \E raw \in {<<"a">>} : view = "board" /\ AddTask(raw) /\ nextId' <= MaxIds + 1
    \/ \E id \in TaskIds, target \in StatusSet :
          view = "board" /\ DropOnColumn(id, target)
    \/ view = "board" /\ PomoButton
    \/ view = "board" /\ PomoDoneShortBreak
    \/ \E delta \in 1..MaxDelta : Tick(delta)
    \/ \E to \in {"board", "stats"} : SwitchView(to)

SpecView == Init /\ [][NextView]_vars

\* ------------------------------------------- transitionTask on drawn inputs
\* Tasks as transitionTask can be handed them: timestamps are positive (a real
\* Date.now()), accumulatedMs and startedAt may be absent.
TaskInputs ==
    {[NoTask EXCEPT !.id = 1, !.status = st, !.startedAt = sa,
                    !.accumulatedMs = acc, !.paused = p] :
        st \in StatusSet, sa \in {Null} \cup 1..MaxTime,
        acc \in {Null} \cup 0..2, p \in BOOLEAN}

InitFn ==
    /\ InitBoard
    /\ tIn \in TaskInputs /\ tTarget \in StatusSet
    /\ tAt \in 1..MaxTime /\ tAt2 \in 1..MaxTime
    /\ tOut = NoTask /\ tOut2 = NoTask /\ tPhase = "drawn"

Apply ==
    /\ tPhase = "drawn"
    /\ tOut' = transitionTask(tIn, tTarget, tAt)
    /\ tPhase' = "once"
    /\ UNCHANGED <<boardVars, flagVars, clock, settingVars, timerVars,
                   tIn, tTarget, tAt, tAt2, tOut2, view>>

ApplyAgain ==
    /\ tPhase = "once"
    /\ tOut2' = transitionTask(tOut, tTarget, tAt2)
    /\ tPhase' = "twice"
    /\ UNCHANGED <<boardVars, flagVars, clock, settingVars, timerVars,
                   tIn, tTarget, tAt, tAt2, tOut, view>>

NextFn == Apply \/ ApplyAgain

SpecTransition == InitFn /\ [][NextFn]_vars

\* ------------------------------------------------------------------ claims
\* C2: folding law.  Leaving in_progress at time N with startedAt = S gives
\* accumulatedMs = (old accumulatedMs or 0) + (N - S) and startedAt null; with
\* startedAt absent accumulatedMs keeps its (defaulted) value.
C2_FoldingLaw ==
    (tPhase # "drawn" /\ tIn.status = "in_progress" /\ tTarget # "in_progress") =>
        /\ tOut.status = tTarget
        /\ tOut.startedAt = Null
        /\ tOut.accumulatedMs =
               Coalesce(tIn.accumulatedMs, 0)
               + (IF tIn.startedAt # Null THEN tAt - tIn.startedAt ELSE 0)

C2_Witness ==
    /\ tPhase = "once" /\ tIn.status = "in_progress" /\ tTarget = "completed"
    /\ tIn.startedAt = 1 /\ tAt = 3 /\ tIn.accumulatedMs = 2
    /\ tOut.accumulatedMs = 4 /\ tOut.startedAt = Null

\* C3: a same-status transition returns the task unchanged for todo and completed;
\* for in_progress with startedAt set it keeps startedAt whatever `now` is; and a
\* second application (at any time) changes nothing more.
C3_SameStatus ==
    (tPhase # "drawn" /\ tTarget = tIn.status) =>
        /\ tIn.status # "in_progress" => tOut = tIn
        /\ (tIn.status = "in_progress" /\ tIn.startedAt # Null) =>
               tOut.startedAt = tIn.startedAt
        /\ tPhase = "twice" => tOut2 = tOut

C3_Witness ==
    /\ tPhase = "twice" /\ tIn.status = "in_progress" /\ tTarget = "in_progress"
    /\ tIn.startedAt = 1 /\ tAt = 2 /\ tAt2 = 3
    /\ tOut.startedAt = 1 /\ tOut2 = tOut

\* ----------------------------------------------------- claims on the board
\* the task with this id accrues time: in_progress, not paused, startedAt set
Running(ts, id) ==
    \E i \in DOMAIN ts :
        /\ ts[i].id = id /\ ts[i].status = "in_progress"
        /\ ~ts[i].paused /\ ts[i].startedAt # Null

\* index of the designated runner: the first non-paused in_progress task; 0 if none
Designated(ts) ==
    IF \E i \in DOMAIN ts : ts[i].status = "in_progress" /\ ~ts[i].paused
    THEN CHOOSE i \in DOMAIN ts :
            /\ ts[i].status = "in_progress" /\ ~ts[i].paused
            /\ \A j \in 1..(i - 1) : ~(ts[j].status = "in_progress" /\ ~ts[j].paused)
    ELSE 0

\* C1: runner invariant.  In every settled state at most one task has
\* status = in_progress, paused = false and startedAt set.
C1_RunnerInvariant ==
    Cardinality({i \in DOMAIN tasks :
                    /\ tasks[i].status = "in_progress"
                    /\ ~tasks[i].paused /\ tasks[i].startedAt # Null}) <= 1

\* C6: while the post-break hold is set and no break is active, every in_progress
\* task other than the designated runner has been stopped (startedAt null).
C6_HoldStillStops ==
    (suppressAutoStart /\ ~isBreakActive) =>
        \A i \in DOMAIN tasks :
            (tasks[i].status = "in_progress" /\ i # Designated(tasks)) =>
                tasks[i].startedAt = Null

\* the task with this id in `ts` (the id is present)
TaskOf(ts, id) == ts[FindIndex(ts, id)]

Present(ts, id) == FindIndex(ts, id) # 0

\* a is the running task, b is outside in_progress, enforcement is in force
\* (no break, no post-break hold), and b is moved into in_progress by updateStatus
C4_Case(a, b) ==
    /\ a # b /\ Present(tasks, a) /\ Present(tasks, b)
    /\ ~isBreakActive /\ ~suppressAutoStart
    /\ Running(tasks, a)
    /\ TaskOf(tasks, b).status # "in_progress"
    /\ DropOnColumn(b, "in_progress")

\* C4 as stated: after A, then B, are set to in_progress, only B runs and A's
\* elapsed time is folded into accumulatedMs with startedAt cleared.
C4_LastStartedRuns ==
    [][\A a \in TaskIds, b \in TaskIds :
          C4_Case(a, b) =>
              /\ Running(tasks', b)
              /\ TaskOf(tasks', a).startedAt = Null
              /\ TaskOf(tasks', a).accumulatedMs =
                     TaskOf(tasks, a).accumulatedMs
                     + (clock - TaskOf(tasks, a).startedAt)]_vars

\* C4 amended: with no break active and no post-break hold, the one of A and B
\* that comes first in collection order runs.  If B is above A, B runs from now
\* and A is folded and cleared; if A is above B, A keeps running untouched and B
\* is queued in in_progress with startedAt null.
C4_TopmostRuns ==
    [][\A a \in TaskIds, b \in TaskIds :
          C4_Case(a, b) =>
              IF FindIndex(tasks, b) < FindIndex(tasks, a)
              THEN /\ Running(tasks', b)
                   /\ TaskOf(tasks', b).startedAt = clock
                   /\ TaskOf(tasks', a).status = "in_progress"
                   /\ TaskOf(tasks', a).startedAt = Null
                   /\ TaskOf(tasks', a).accumulatedMs =
                          TaskOf(tasks, a).accumulatedMs
                          + (clock - TaskOf(tasks, a).startedAt)
              ELSE /\ TaskOf(tasks', a) = TaskOf(tasks, a)
                   /\ TaskOf(tasks', b).status = "in_progress"
                   /\ ~TaskOf(tasks', b).paused
                   /\ TaskOf(tasks', b).startedAt = Null
                   /\ TaskOf(tasks', b).accumulatedMs =
                          TaskOf(tasks, b).accumulatedMs]_vars

\* B, above A, runs; A is queued below it with its earlier run folded
C4_Witness ==
    /\ ~isBreakActive /\ ~suppressAutoStart
    /\ Len(tasks) = 2
    /\ Running(tasks, tasks[1].id) /\ tasks[1].startedAt > 1
    /\ tasks[2].status = "in_progress" /\ ~tasks[2].paused
    /\ tasks[2].startedAt = Null
    /\ tasks[2].accumulatedMs = tasks[1].startedAt - 1

\* C5: while a break is active no task has startedAt set after enforcement; the
\* tasks that were running when it began were folded (accumulatedMs increased by
\* now - startedAt), and a task resumed or moved into in_progress during the
\* break is stopped again at once.
C5_BreakStopsAll ==
    [][isBreakActive' =>
          /\ \A j \in DOMAIN tasks' : tasks'[j].startedAt = Null
          /\ \A i \in DOMAIN tasks : \A j \in DOMAIN tasks' :
                (/\ tasks[i].id = tasks'[j].id
                 /\ tasks[i].status = "in_progress"
                 /\ tasks[i].startedAt # Null) =>
                    tasks'[j].accumulatedMs =
                        tasks[i].accumulatedMs + (clock' - tasks[i].startedAt)]_vars

\* a break is on; a non-paused in_progress task stands stopped with folded time
C5_Witness ==
    /\ isBreakActive
    /\ \E i \in DOMAIN tasks :
          /\ tasks[i].status = "in_progress" /\ ~tasks[i].paused
          /\ tasks[i].startedAt = Null /\ tasks[i].accumulatedMs > 0

C8_FrozenOutsideInProgress ==
    [][\A i \in DOMAIN tasks : \A j \in DOMAIN tasks' :
          (tasks[i].id = tasks'[j].id /\ tasks'[j].status # "in_progress") =>
              /\ tasks'[j].startedAt = Null
              /\ tasks[i].status # "in_progress" =>
                    /\ tasks'[j].accumulatedMs = tasks[i].accumulatedMs
                    /\ tasks[i].startedAt = Null]_vars

\* a completed task keeps its folded time while another task runs later
C8_Witness ==
    \E i \in DOMAIN tasks : \E j \in DOMAIN tasks :
        /\ tasks[i].status = "completed" /\ tasks[i].accumulatedMs > 0
        /\ tasks[i].startedAt = Null
        /\ Running(tasks, tasks[j].id)
        /\ tasks[j].startedAt >= 1 + tasks[i].accumulatedMs
        /\ clock > tasks[j].startedAt

\* ids of the tasks / templates of a collection
IdsOf(s) == {s[i].id : i \in DOMAIN s}

\* C9: once the marker equals today's key, a further run of the seeding on the
\* same calendar day leaves the marker alone and adds no task for a template that
\* already existed; so the template collection is materialized at most once a day
\* (the only task a same-day step may add for a template is the one addDaily
\* inserts for the template it has just created).
C9_SeedOncePerDay ==
    [][(lastSeed = today /\ today' = today) =>
          /\ lastSeed' = lastSeed
          /\ \A j \in DOMAIN tasks' :
                (tasks'[j].id \notin IdsOf(tasks) /\ tasks'[j].origin = "daily") =>
                    /\ tasks'[j].originId \notin IdsOf(dailyItems)
                    /\ \A k \in DOMAIN tasks' :
                          (tasks'[k].id \notin IdsOf(tasks) /\ tasks'[k].origin = "daily")
                              => k = j]_vars

\* two templates made on one day: the first was seeded, the seeding ran again
\* after the second was added, and each template still has exactly one task
C9_Witness ==
    /\ today = 1 /\ lastSeed = today
    /\ Len(dailyItems) = 2
    /\ \A d \in DOMAIN dailyItems :
          Cardinality({i \in DOMAIN tasks :
              tasks[i].origin = "daily" /\ tasks[i].originId = dailyItems[d].id}) = 1

\* the existing tasks the seeding effect is handed in a step: the old tasks
\* without those of a template removed in the same step
KeptTasks ==
    SelectSeq(tasks, LAMBDA t : t.origin = "daily" => t.originId \in IdsOf(dailyItems'))

\* C10: a step in which the seeding materializes (the marker changes) starts with
\* a marker different from today's key and a non-empty template collection; it
\* puts exactly one fresh task per template, in template order, in front of the
\* existing tasks (status todo, origin daily, originId and title of the template,
\* accumulatedMs 0, startedAt null, paused false, no subtasks), keeps every
\* existing task in order (as the handler that triggered the seeding left them:
\* updateTitle may have renamed one), and sets the marker to today's key.
C10_SeedMaterializes ==
    [][(lastSeed' # lastSeed) =>
          LET k == Len(dailyItems')
              kept == KeptTasks
          IN  /\ lastSeed # today /\ k > 0 /\ lastSeed' = today
              /\ Len(tasks') = k + Len(kept)
              /\ \A i \in 1..k :
                    /\ tasks'[i] = NewTask(tasks'[i].id, dailyItems'[i].title,
                                           "daily", dailyItems'[i].id)
                    /\ tasks'[i].id \notin IdsOf(tasks)
                    /\ \A j \in 1..k : tasks'[j].id = tasks'[i].id => j = i
              /\ \A j \in 1..Len(kept) :
                    /\ tasks'[k + j].id = kept[j].id
                    /\ tasks'[k + j].status = kept[j].status
                    /\ tasks'[k + j].origin = kept[j].origin
                    /\ tasks'[k + j].originId = kept[j].originId
                    /\ tasks'[k + j].accumulatedMs = kept[j].accumulatedMs]_vars

\* the second day's seeding put one todo task per template, in template order,
\* in front of the task completed the day before
C10_Witness ==
    /\ today = 2 /\ lastSeed = today
    /\ Len(dailyItems) = 2 /\ Len(tasks) = 3
    /\ \A i \in 1..2 :
          /\ tasks[i].origin = "daily" /\ tasks[i].originId = dailyItems[i].id
          /\ tasks[i].status = "todo" /\ tasks[i].title = dailyItems[i].title
    /\ tasks[3].status = "completed" /\ tasks[3].id < tasks[1].id
    /\ tasks[3].id < tasks[2].id

\* the tasks of `ts` that reference template `id`
TasksOfTemplate(ts, id) ==
    {i \in DOMAIN ts : ts[i].origin = "daily" /\ ts[i].originId = id}

\* C11: a step that adds a template puts it at the front of the template
\* collection with its trimmed, non-empty title, and ends with exactly one task
\* referencing it: if the marker equalled today's key, that task is put in front
\* of the unchanged tasks and the seeding that follows adds nothing; otherwise the
\* seeding creates it along with one task for every other template.
C11_AddTemplateOneTask ==
    [][(Len(dailyItems') = Len(dailyItems) + 1) =>
          LET d == dailyItems'[1]
              mine == TasksOfTemplate(tasks', d.id)
          IN  /\ Tail(dailyItems') = dailyItems
              /\ d.id \notin IdsOf(dailyItems)
              /\ d.title # <<>> /\ Trim(d.title) = d.title
              /\ Cardinality(mine) = 1
              /\ \A i \in mine :
                    /\ tasks'[i] = NewTask(tasks'[i].id, d.title, "daily", d.id)
                    /\ tasks'[i].id \notin IdsOf(tasks)
              /\ lastSeed' = today
              /\ IF lastSeed = today
                 THEN tasks' = <<tasks'[1]>> \o tasks /\ 1 \in mine
                 ELSE /\ Len(tasks') = Len(dailyItems') + Len(tasks)
                      /\ 1 \in mine
                      /\ SubSeq(tasks', Len(dailyItems') + 1, Len(tasks')) = tasks]_vars

\* a template added after today's seeding: its one task sits in front of a manual
\* task and of the task seeded for the older template
C11_Witness ==
    /\ today = 1 /\ lastSeed = today
    /\ Len(dailyItems) = 2 /\ Len(tasks) = 3
    /\ TasksOfTemplate(tasks, dailyItems[1].id) = {1}
    /\ tasks[2].origin = "manual"
    /\ TasksOfTemplate(tasks, dailyItems[2].id) = {3}

\* C12: a step that removes a template removes exactly that template (the others
\* keep their order) and every task referencing it, whatever its status; every
\* other task stays, in the same relative order (behind the tasks of a seeding
\* that the same step may trigger on a new day).
C12_RemoveTemplateCascades ==
    [][(Len(dailyItems') < Len(dailyItems)) =>
          \E r \in IdsOf(dailyItems) :
              LET kept == SelectSeq(tasks,
                              LAMBDA t : ~(t.origin = "daily" /\ t.originId = r))
                  n == Len(tasks') - Len(kept)
              IN  /\ dailyItems' = SelectSeq(dailyItems, LAMBDA d : d.id # r)
                  /\ TasksOfTemplate(tasks', r) = {}
                  /\ n >= 0
                  /\ lastSeed = today => n = 0
                  /\ \A j \in 1..n : tasks'[j].id \notin IdsOf(tasks)
                  /\ \A j \in 1..Len(kept) :
                        /\ tasks'[n + j].id = kept[j].id
                        /\ tasks'[n + j].title = kept[j].title
                        /\ tasks'[n + j].status = kept[j].status
                        /\ tasks'[n + j].paused = kept[j].paused
                        /\ tasks'[n + j].origin = kept[j].origin
                        /\ tasks'[n + j].originId = kept[j].originId]_vars

\* the second template and its task are gone; the first template's completed
\* task and a manual task are still there in their order
C12_Witness ==
    /\ nextDailyId = 3 /\ Len(dailyItems) = 1 /\ dailyItems[1].id = 1
    /\ nextId = 4 /\ Len(tasks) = 2
    /\ tasks[1].origin = "manual"
    /\ TasksOfTemplate(tasks, 1) = {2} /\ tasks[2].status = "completed"

\* ids of the tasks whose title differs after the step
Retitled ==
    {tasks[i].id : i \in {k \in DOMAIN tasks :
        \E j \in DOMAIN tasks' :
            tasks'[j].id = tasks[k].id /\ tasks'[j].title # tasks[k].title}}

\* the templates other than `o` are the same, in the same places
OtherTemplatesSame(o) ==
    /\ Len(dailyItems') = Len(dailyItems)
    /\ \A d \in DOMAIN dailyItems :
          /\ dailyItems'[d].id = dailyItems[d].id
          /\ dailyItems[d].id # o => dailyItems'[d] = dailyItems[d]

\* C13: a step that changes the title of a task either changes that of one manual
\* task only (no template changes), or gives one and the same trimmed, non-empty
\* title to a template, to every task referencing it, and to nothing else.
C13_TitlePropagates ==
    [][(Retitled # {}) =>
          \/ /\ Cardinality(Retitled) = 1
             /\ \A id \in Retitled :
                   /\ TaskOf(tasks, id).origin = "manual"
                   /\ TaskOf(tasks', id).title # <<>>
                   /\ Trim(TaskOf(tasks', id).title) = TaskOf(tasks', id).title
             /\ dailyItems' = dailyItems
          \/ \E o \in IdsOf(dailyItems) : \E d \in DOMAIN dailyItems' :
                LET title == dailyItems'[d].title
                IN  /\ dailyItems'[d].id = o
                    /\ title # <<>> /\ Trim(title) = title
                    /\ OtherTemplatesSame(o)
                    /\ \A id \in Retitled :
                          /\ TaskOf(tasks, id).origin = "daily"
                          /\ TaskOf(tasks, id).originId = o
                    /\ \A j \in TasksOfTemplate(tasks', o) : tasks'[j].title = title]_vars

\* on the second day a template, the task seeded for it on each day and a manual
\* task: the template and both its tasks carry the new title, the manual task
\* its own
C13_Witness ==
    /\ today = 2 /\ Len(dailyItems) = 1 /\ dailyItems[1].title = <<"b">>
    /\ Len(tasks) = 3
    /\ Cardinality(TasksOfTemplate(tasks, dailyItems[1].id)) = 2
    /\ \A i \in TasksOfTemplate(tasks, dailyItems[1].id) : tasks[i].title = <<"b">>
    /\ \E i \in DOMAIN tasks : tasks[i].origin = "manual" /\ tasks[i].title = <<"a">>

\* C14: the step in which a running focus countdown reaches zero adds exactly 1
\* to the completed-focus-cycle counter, stops the focus countdown and shows the
\* focus-done prompt; no other step changes the counter.
C14_CycleCounted ==
    [][/\ (pomoRunning /\ clock' > clock /\ pomoLeft' = 0) =>
             /\ pomoCount' = pomoCount + 1
             /\ ~pomoRunning' /\ showPomoDone'
       /\ (pomoCount' # pomoCount) =>
             /\ pomoRunning /\ clock' > clock /\ pomoLeft' = 0
             /\ pomoCount' = pomoCount + 1]_vars

\* two focus cycles were run to the end; the prompt of the second is showing
C14_Witness ==
    pomoCount = 2 /\ showPomoDone /\ ~pomoRunning /\ pomoLeft = 0

\* C15: the focus countdown and the break countdown are never both running.
C15_OneCountdown == ~(pomoRunning /\ breakRunning)

\* C16: the step in which a running break countdown reaches zero stops the break,
\* resets the break remaining time to the configured break duration, shows the
\* break-done prompt and raises the suppress-auto-start signal.
C16_BreakEnd ==
    [][(breakRunning /\ ~pomoRunning /\ clock' > clock
        /\ breakLeft - (clock' - lastTick) <= 0) =>
          /\ ~breakRunning' /\ ~isBreakActive'
          /\ breakLeft' = breakDuration
          /\ showBreakDone'
          /\ suppressAutoStart']_vars

\* the step is a card drop: the user's own move of a card
CardDropped ==
    \E id \in TaskIds :
        \/ \E target \in StatusSet : DropOnColumn(id, target)
        \/ \E over \in TaskIds : DropOnTask(id, over)

TopInProgress(ts) ==
    IF \E i \in DOMAIN ts : ts[i].status = "in_progress"
    THEN CHOOSE i \in DOMAIN ts :
            /\ ts[i].status = "in_progress"
            /\ \A j \in 1..(i - 1) : ts[j].status # "in_progress"
    ELSE 0

\* C18: what onToggleRun hands to setTasks for task `id` at time `clock`: a task
\* that is in_progress and paused or without startedAt is resumed (paused cleared,
\* startedAt = now, accumulatedMs unchanged), one that is running is paused
\* (accumulatedMs increased by now - startedAt, startedAt cleared, paused set), a
\* task outside in_progress and every other task are returned unchanged.  For the
\* card that shows the button, outside a break, this is also the task's settled
\* state after the step.
C18_ToggleRun ==
    [][\A id \in TaskIds :
          ToggleRun(id) =>
              LET out == toggleRun(tasks, id, clock)
              IN  /\ Len(out) = Len(tasks)
                  /\ \A i \in DOMAIN tasks :
                        LET t == tasks[i]
                        IN  IF t.id # id \/ t.status # "in_progress"
                            THEN out[i] = t
                            ELSE IF t.paused \/ t.startedAt = Null
                            THEN out[i] = [t EXCEPT !.paused = FALSE,
                                                    !.startedAt = clock]
                            ELSE out[i] = [t EXCEPT
                                     !.accumulatedMs = t.accumulatedMs
                                                       + (clock - t.startedAt),
                                     !.startedAt = Null, !.paused = TRUE]
                  /\ (/\ ~isBreakActive
                      /\ TopInProgress(tasks) # 0
                      /\ tasks[TopInProgress(tasks)].id = id) =>
                         TaskOf(tasks', id) = TaskOf(out, id)]_vars

\* the top in_progress task was paused after running and a second toggle has
\* resumed it at a later time
C18_Witness ==
    /\ ~isBreakActive
    /\ TopInProgress(tasks) # 0
    /\ LET t == tasks[TopInProgress(tasks)]
       IN  /\ ~t.paused /\ t.accumulatedMs > 0
           /\ t.startedAt = clock /\ clock > 1 + t.accumulatedMs
    /\ \A i \in DOMAIN tasks : i # TopInProgress(tasks) => tasks[i].status = "todo"

\* C19: Create with a title that is non-empty after trimming puts exactly one new
\* task at the front of the collection (trimmed title, status todo, origin manual,
\* accumulatedMs 0, startedAt null, paused false, no subtasks, a fresh id) and
\* leaves the existing tasks, their order, the templates and the marker as they
\* were.
C19_CreateAtFront ==
    [][\A raw \in RawTitles :
          (Trim(raw) # <<>> /\ AddTask(raw)) =>
              /\ Len(tasks') = Len(tasks) + 1
              /\ Tail(tasks') = tasks
              /\ Head(tasks').id \notin IdsOf(tasks)
              /\ Head(tasks') =
                     [id |-> Head(tasks').id, title |-> Trim(raw), status |-> "todo",
                      origin |-> "manual", originId |-> Null, startedAt |-> Null,
                      accumulatedMs |-> 0, paused |-> FALSE, subtasks |-> <<>>]
              /\ dailyItems' = dailyItems /\ lastSeed' = lastSeed]_vars

\* a task created from " b" stands, titled "b", in front of a task that is running
C19_Witness ==
    /\ Len(tasks) = 2
    /\ tasks[1] = NewTask(tasks[1].id, <<"b">>, "manual", Null)
    /\ tasks[1].id > tasks[2].id
    /\ tasks[2].origin = "manual" /\ Running(tasks, tasks[2].id)

\* a raw title with nothing but blanks in it
Blank(raw) == \A i \in DOMAIN raw : raw[i] = " "

\* C20: Create, UpdateTitle, AddTemplate and add-subtask called with a title that
\* is empty after trimming change nothing: the tasks, the templates and the seed
\* marker are as before (no error is raised: the handlers return).
C20_BlankTitleNoOp ==
    [][\A raw \in RawTitles :
          (/\ Blank(raw)
           /\ \/ AddTask(raw)
              \/ AddDaily(raw)
              \/ \E id \in TaskIds : UpdateTitle(id, raw)
              \/ \E id \in TaskIds : AddSubtask(id, raw)) =>
              UNCHANGED <<tasks, dailyItems, lastSeed>>]_vars

\* a board on which each of the four inputs has something to act on: a manual
\* task with a subtask, and a template with its task
C20_Witness ==
    /\ Len(tasks) = 2 /\ Len(dailyItems) = 1 /\ lastSeed = today
    /\ \E i \in DOMAIN tasks :
          tasks[i].origin = "manual" /\ Len(tasks[i].subtasks) = 1
    /\ TasksOfTemplate(tasks, dailyItems[1].id) # {}

\* what the claims expect of a task `t` taken to another status at time `at`
Moved(t, status, at) ==
    IF t.status = "in_progress"
    THEN [t EXCEPT !.status = status,
                   !.accumulatedMs = t.accumulatedMs
                       + (IF t.startedAt # Null THEN at - t.startedAt ELSE 0),
                   !.startedAt = Null]
    ELSE IF status = "in_progress"
    THEN [t EXCEPT !.status = status, !.startedAt = at, !.paused = FALSE]
    ELSE [t EXCEPT !.status = status]

\* C21: in every reachable state, what updateStatus hands to setTasks for
\* (id, newStatus) at time `clock`, newStatus being another status than the task
\* has (the only call, in onDragEnd): the task with that id is transitioned
\* (folded when it leaves in_progress, started when it enters it), its paused
\* flag is false if newStatus is in_progress and keeps its stored value
\* otherwise, and every other task is returned unchanged and in the same place.
C21_UpdateStatus ==
    \A id \in TaskIds : \A target \in StatusSet :
        (Present(tasks, id) /\ TaskOf(tasks, id).status # target) =>
            LET out == updateStatus(tasks, id, target, clock)
            IN  /\ Len(out) = Len(tasks)
                /\ \A i \in DOMAIN tasks :
                      out[i] = IF tasks[i].id = id
                               THEN Moved(tasks[i], target, clock)
                               ELSE tasks[i]
                /\ TaskOf(out, id).paused =
                       IF target = "in_progress" THEN FALSE
                       ELSE TaskOf(tasks, id).paused

\* a task paused while in_progress and then completed keeps its paused flag
C21_Witness ==
    \E i \in DOMAIN tasks :
        /\ tasks[i].status = "completed" /\ tasks[i].paused
        /\ tasks[i].accumulatedMs > 0 /\ tasks[i].startedAt = Null

\* a step that leaves the clock, the timer and the flags alone, as every drop does
BoardStep == UNCHANGED <<clock, timerVars, flagVars>>

\* C22: a drop on a column whose status the task does not have hands the task
\* to updateStatus (in the settled state the task has the column's status, the
\* paused flag updateStatus gives it, and no task has changed place or list); a
\* drop on the column the task is already in changes nothing at all, and neither
\* does a drop outside every target.
C22_DropOnColumn ==
    [][BoardStep =>
         \A id \in TaskIds :
            Present(tasks, id) =>
               /\ DropOutside(id) => UNCHANGED vars
               /\ \A target \in StatusSet :
                     DropOnColumn(id, target) =>
                        IF TaskOf(tasks, id).status = target
                        THEN UNCHANGED vars
                        ELSE LET out == updateStatus(tasks, id, target, clock)
                             IN  /\ Len(tasks') = Len(tasks)
                                 /\ \A i \in DOMAIN tasks :
                                       /\ tasks'[i].id = tasks[i].id
                                       /\ tasks'[i].status = out[i].status
                                       /\ tasks'[i].paused = out[i].paused
                                 /\ TaskOf(tasks', id).status = target]_vars

\* a task sent back to todo after it ran, next to a paused in_progress task (the
\* one a drop on its own column must leave paused)
C22_Witness ==
    /\ \E i \in DOMAIN tasks : tasks[i].status = "todo" /\ tasks[i].accumulatedMs > 0
    /\ \E i \in DOMAIN tasks : tasks[i].status = "in_progress" /\ tasks[i].paused

\* the ids of `ts` in order, `id` left out
IdsWithout(ts, id) == SelectSeq([i \in DOMAIN ts |-> ts[i].id], LAMBDA x : x # id)

\* C23: a drop of task X on the card of task Y, both in the collection: the
\* handler takes X out and puts it back as transitionTask(X, Y's status) with
\* paused false if that status is in_progress and X's stored paused otherwise;
\* the other tasks are unchanged and keep their order; X ends up immediately
\* before Y, or at the front when Y is X itself (Y is not found once X is taken
\* out). The settled state has the same order, statuses and paused flags.
C23_DropOnTask ==
    [][BoardStep =>
         \A x \in TaskIds : \A y \in TaskIds :
            (Present(tasks, x) /\ Present(tasks, y) /\ DropOnTask(x, y)) =>
               LET out == dropOnTask(tasks, x, y, clock)
                   X == TaskOf(tasks, x)
                   Y == TaskOf(tasks, y)
                   at == FindIndex(out, x)
               IN  /\ Len(out) = Len(tasks)
                   /\ IdsWithout(out, x) = IdsWithout(tasks, x)
                   /\ \A i \in DOMAIN tasks :
                         tasks[i].id # x => TaskOf(out, tasks[i].id) = tasks[i]
                   /\ out[at] = [transitionTask(X, Y.status, clock) EXCEPT
                                    !.paused = IF Y.status = "in_progress"
                                               THEN FALSE ELSE X.paused]
                   /\ out[at].status = Y.status
                   /\ IF x # y THEN at + 1 = FindIndex(out, y) ELSE at = 1
                   /\ Len(tasks') = Len(out)
                   /\ \A i \in DOMAIN out :
                         /\ tasks'[i].id = out[i].id
                         /\ tasks'[i].status = out[i].status
                         /\ tasks'[i].paused = out[i].paused]_vars

\* a paused task that was dropped on a completed card below it: it sits before
\* that card, completed, still paused, with its time kept
C23_Witness ==
    /\ Len(tasks) = 2
    /\ tasks[1].id = 1 /\ tasks[1].status = "completed" /\ tasks[1].paused
    /\ tasks[1].accumulatedMs > 0
    /\ tasks[2].id = 2 /\ tasks[2].status = "completed"

\* no template has the id
UnknownTemplate(id) == \A k \in DOMAIN dailyItems : dailyItems[k].id # id

\* a handler addressed to a task id that is not in the collection has run
UnknownTaskOp(id) ==
    \/ RemoveTask(id)
    \/ \E target \in StatusSet : DropOnColumn(id, target)
    \/ \E raw \in RawTitles : UpdateTitle(id, raw)
    \/ ToggleRun(id)
    \/ \E raw \in RawTitles : AddSubtask(id, raw)
    \/ \E sub \in SubIds : ToggleSubtask(id, sub) \/ RemoveSubtask(id, sub)
    \/ \E o \in TaskIds : DropOnTask(id, o) \/ DropOnTask(o, id)

\* a subtask handler addressed to a subtask id its task does not have has run
UnknownSubtaskOp(id, sub) ==
    /\ Present(tasks, id)
    /\ \A k \in DOMAIN TaskOf(tasks, id).subtasks : TaskOf(tasks, id).subtasks[k].id # sub
    /\ (ToggleSubtask(id, sub) \/ RemoveSubtask(id, sub))

\* C24 as stated: every handler addressed to an id that is not in the collection,
\* removeDaily of an unknown template included, leaves tasks and templates as
\* they were.
C24_UnknownIdNoOp ==
    [][/\ \A id \in TaskIds :
            (~Present(tasks, id) /\ UnknownTaskOp(id)) => UNCHANGED <<tasks, dailyItems>>
       /\ \A id \in TaskIds : \A sub \in SubIds :
            UnknownSubtaskOp(id, sub) => UNCHANGED <<tasks, dailyItems>>
       /\ \A d \in DailyIds :
            (UnknownTemplate(d) /\ RemoveDaily(d)) => UNCHANGED <<tasks, dailyItems>>]_vars

\* C24, amended: the handlers addressed to a task or subtask id that is not in
\* the collection leave tasks and templates as they were; removeDaily of an
\* unknown template leaves the templates as they were and every task in place,
\* but it sets dailyItems, so the seeding effect runs: when the seed marker is
\* not today's and there are templates, one todo task per template is put in
\* front of the tasks and the marker becomes today's.
C24_UnknownIdNoOpButSeeding ==
    [][/\ \A id \in TaskIds :
            (~Present(tasks, id) /\ UnknownTaskOp(id)) => UNCHANGED <<tasks, dailyItems>>
       /\ \A id \in TaskIds : \A sub \in SubIds :
            UnknownSubtaskOp(id, sub) => UNCHANGED <<tasks, dailyItems>>
       /\ \A d \in DailyIds :
            (UnknownTemplate(d) /\ RemoveDaily(d)) =>
               /\ dailyItems' = dailyItems
               /\ IF SeedDue(dailyItems, lastSeed, today)
                  THEN /\ Len(tasks') = Len(dailyItems) + Len(tasks)
                       /\ SubSeq(tasks', Len(dailyItems) + 1, Len(tasks')) = tasks
                       /\ \A k \in DOMAIN dailyItems :
                             /\ tasks'[k].status = "todo"
                             /\ tasks'[k].origin = "daily"
                             /\ tasks'[k].originId = dailyItems[k].id
                             /\ ~Present(tasks, tasks'[k].id)
                       /\ lastSeed' = today
                  ELSE UNCHANGED <<tasks, lastSeed>>]_vars

\* the day after the first seeding: a second task of the only template has been
\* put in front of the first one, as removeDaily of an unknown template does
C24_Witness ==
    /\ today = 2 /\ lastSeed = 2
    /\ Len(dailyItems) = 1
    /\ Len(tasks) = 2 /\ tasks[1].id = 2 /\ tasks[2].id = 1
    /\ \A i \in DOMAIN tasks :
          tasks[i].origin = "daily" /\ tasks[i].originId = dailyItems[1].id

\* C25: when the page is opened, each record falls back on its own: the templates
\* are the stored ones when the template record is sound and none otherwise,
\* whatever the task record is; the stored tasks are all there when the task
\* record is sound, and none of them is when it is missing or unparsable.
C25_LoadPerRecord ==
    [][\A taskRec \in RecordStates : \A dailyRec \in RecordStates :
          Startup(taskRec, dailyRec) =>
             /\ dailyItems' = IF dailyRec = "ok" THEN dailyItems ELSE <<>>
             /\ \A i \in DOMAIN tasks :
                   Present(tasks', tasks[i].id) <=> (taskRec = "ok")]_vars

\* C26: in every state a step leaves with no break active and the hold off, the
\* first non-paused in_progress task, if there is one, has startedAt set; and if
\* that task was there before the step with startedAt null, it has been started
\* at the current time.  (So once the runner is paused, removed or moved out of
\* in_progress, the next non-paused in_progress task is running.)
C26_NextRunnerStarts ==
    [][(~isBreakActive' /\ ~suppressAutoStart' /\ Designated(tasks') # 0) =>
          LET runner == tasks'[Designated(tasks')]
          IN  /\ runner.startedAt # Null
              /\ (Present(tasks, runner.id)
                  /\ TaskOf(tasks, runner.id).startedAt = Null) =>
                     runner.startedAt = clock']_vars

\* the first in_progress task has been paused after running, and the one below
\* it, which was waiting, has been started later than the session began
C26_Witness ==
    /\ ~isBreakActive /\ ~suppressAutoStart
    /\ \E i \in DOMAIN tasks : \E j \in DOMAIN tasks :
          /\ i < j
          /\ tasks[i].status = "in_progress" /\ tasks[i].paused
          /\ tasks[i].accumulatedMs > 0
          /\ tasks[j].status = "in_progress" /\ ~tasks[j].paused
          /\ tasks[j].startedAt # Null /\ tasks[j].startedAt > 1

RECURSIVE totalMs(_, _, _)
\* the total shown in the panel: the sum over `ts` of accumulatedMs plus, outside
\* a break, the time since startedAt of the in_progress tasks that have one
totalMs(ts, brk, at) ==
    IF ts = <<>> THEN 0
    ELSE Coalesce(Head(ts).accumulatedMs, 0)
         + (IF ~brk /\ Head(ts).status = "in_progress" /\ Truthy(Head(ts).startedAt)
            THEN at - Head(ts).startedAt ELSE 0)
         + totalMs(Tail(ts), brk, at)

\* C27: no double counting.  Over a step that removes no task, the total derived
\* elapsed time of the collection grows by no more than the time that has passed,
\* the post-break hold being set or not.
C27_NoDoubleCounting ==
    [][(\A i \in DOMAIN tasks : Present(tasks', tasks[i].id)) =>
          totalMs(tasks', isBreakActive', clock') - totalMs(tasks, isBreakActive, clock)
              <= clock' - clock]_vars

\* C28: in every settled state a task that is running (in_progress with startedAt
\* set) is the first in_progress task of the collection, the one whose card shows
\* the toggle-run button.
C28_RunnerHasToggle ==
    \A i \in DOMAIN tasks :
        (tasks[i].status = "in_progress" /\ tasks[i].startedAt # Null) =>
            i = TopInProgress(tasks)

\* C29: in every reachable state a task in todo or completed has startedAt null.
C29_StartedOnlyInProgress ==
    \A i \in DOMAIN tasks :
        tasks[i].status # "in_progress" => tasks[i].startedAt = Null

\* two tasks that have run: one is back in todo and the other is completed, both
\* with their time kept and startedAt cleared
C29_Witness ==
    /\ \E i \in DOMAIN tasks :
          /\ tasks[i].status = "todo" /\ tasks[i].accumulatedMs > 0
          /\ tasks[i].startedAt = Null
    /\ \E i \in DOMAIN tasks :
          /\ tasks[i].status = "completed" /\ tasks[i].accumulatedMs > 0
          /\ tasks[i].startedAt = Null

\* C30: in every reachable state a task with paused = true has startedAt null.
C30_PausedNotRunning ==
    \A i \in DOMAIN tasks : tasks[i].paused => tasks[i].startedAt = Null

\* a task paused after it ran and then sent back to todo, still marked paused,
\* next to a task that is running
C30_Witness ==
    /\ \E i \in DOMAIN tasks :
          /\ tasks[i].status = "todo" /\ tasks[i].paused
          /\ tasks[i].accumulatedMs > 0 /\ tasks[i].startedAt = Null
    /\ \E i \in DOMAIN tasks :
          /\ tasks[i].status = "in_progress" /\ ~tasks[i].paused
          /\ tasks[i].startedAt # Null

\* C31: a change of view leaves the two countdowns (running or not, and their
\* remaining time) and the break-active signal of runner enforcement as they
\* were.
C31_ViewSwitchKeepsTimer ==
    [][(\E to \in {"board", "stats"} : SwitchView(to)) =>
          UNCHANGED <<pomoRunning, pomoLeft, breakRunning, breakLeft,
                      isBreakActive>>]_vars

\* the ids of `ts` in collection order
IdSeq(ts) == [i \in DOMAIN ts |-> ts[i].id]

\* C32: a drop on a column or on a card leaves the collection with the same
\* number of tasks and the same ids, each once; a drop on a column keeps every
\* task in place, and a drop on a card keeps the tasks other than the dragged
\* one in the order they had.
C32_DropKeepsTasks ==
    [][BoardStep =>
         \A a \in TaskIds :
            /\ \A target \in StatusSet :
                  DropOnColumn(a, target) => IdSeq(tasks') = IdSeq(tasks)
            /\ \A o \in TaskIds :
                  DropOnTask(a, o) =>
                     /\ Len(tasks') = Len(tasks)
                     /\ Range(IdSeq(tasks')) = Range(IdSeq(tasks))
                     /\ Cardinality(Range(IdSeq(tasks'))) = Len(tasks')
                     /\ IdsWithout(tasks', a) = IdsWithout(tasks, a)]_vars

\* two tasks, the older one in front: a card has been dragged over the other
C32_Witness ==
    /\ Len(tasks) = 2 /\ tasks[1].id = 1 /\ tasks[2].id = 2
    /\ tasks[1].status = "todo" /\ tasks[2].status = "in_progress"

\* C33: a card dropped on itself (over.id = active.id: every card is a droppable
\* under its own id) leaves the collection in the same order and the task with
\* the same status, paused flag, startedAt and accumulatedMs.
C33_SelfDropNoOp ==
    [][BoardStep =>
         \A id \in TaskIds :
            (Present(tasks, id) /\ DropOnTask(id, id)) =>
               /\ IdSeq(tasks') = IdSeq(tasks)
               /\ TaskOf(tasks', id).status = TaskOf(tasks, id).status
               /\ TaskOf(tasks', id).paused = TaskOf(tasks, id).paused
               /\ TaskOf(tasks', id).startedAt = TaskOf(tasks, id).startedAt
               /\ TaskOf(tasks', id).accumulatedMs = TaskOf(tasks, id).accumulatedMs]_vars

\* a task's derived elapsed time at time `at`
Elapsed(t, at) ==
    Coalesce(t.accumulatedMs, 0) + (IF Truthy(t.startedAt) THEN at - t.startedAt ELSE 0)

\* C34: time accounting is exact.  Over every step, the derived elapsed time of
\* a task that stays in the collection grows by exactly the time that passes
\* if the task had startedAt set when the step began and by nothing otherwise
\* (the state between two steps is constant, so this is the wall-clock time
\* during which startedAt was set); a task that comes in starts from 0.
C34_ExactAccounting ==
    [][\A i \in DOMAIN tasks' :
          LET t == tasks'[i]
          IN  IF Present(tasks, t.id)
              THEN Elapsed(t, clock') - Elapsed(TaskOf(tasks, t.id), clock) =
                      IF TaskOf(tasks, t.id).startedAt # Null
                      THEN clock' - clock ELSE 0
              ELSE Elapsed(t, clock') = 0]_vars

\* a task on its second run: time kept from the first, and time accruing since
\* it was started again
C34_Witness ==
    \E i \in DOMAIN tasks :
        /\ tasks[i].status = "in_progress" /\ tasks[i].accumulatedMs > 0
        /\ tasks[i].startedAt # Null /\ clock > tasks[i].startedAt

\* C35: referential integrity.  In every state reached by adding and removing
\* templates, seeding, retitling and task operations, a task of origin daily has
\* the id of a template of the collection as its originId.
C35_DailyTasksHaveTemplate ==
    \A i \in DOMAIN tasks :
        tasks[i].origin = "daily" => tasks[i].originId \in IdsOf(dailyItems)

\* the first template has been removed with its tasks; the second one is left
\* with a task of its own
C35_Witness ==
    /\ Len(dailyItems) = 1 /\ dailyItems[1].id = 2
    /\ \E i \in DOMAIN tasks : tasks[i].origin = "daily" /\ tasks[i].originId = 2
    /\ \E i \in DOMAIN tasks : tasks[i].origin = "manual"

\* C36: the groups partition the collection by status: each task is once in the
\* group of its status and in no other, the in_progress and completed groups are
\* in collection order, and the todo group is the daily todo tasks in collection
\* order followed by the other todo tasks in collection order.
C36_GroupedPartition ==
    LET g == grouped(tasks)
    IN  /\ Len(g.todo) + Len(g.in_progress) + Len(g.completed) = Len(tasks)
        /\ \A s \in StatusSet : \A k \in DOMAIN g[s] : g[s][k].status = s
        /\ \A i \in DOMAIN tasks :
              Cardinality({k \in DOMAIN g[tasks[i].status] :
                              g[tasks[i].status][k] = tasks[i]}) = 1
        /\ g.in_progress = SelectSeq(tasks, LAMBDA t : t.status = "in_progress")
        /\ g.completed = SelectSeq(tasks, LAMBDA t : t.status = "completed")
        /\ g.todo = SelectSeq(tasks, LAMBDA t : t.status = "todo" /\ t.origin = "daily")
                     \o SelectSeq(tasks, LAMBDA t : t.status = "todo" /\ t.origin # "daily")

\* a manual todo task stands before a daily todo task in the collection (the
\* group has to bring the daily one forward), and another task is in_progress
C36_Witness ==
    /\ \E i \in DOMAIN tasks : \E j \in DOMAIN tasks :
          /\ i < j
          /\ tasks[i].status = "todo" /\ tasks[i].origin = "manual"
          /\ tasks[j].status = "todo" /\ tasks[j].origin = "daily"
    /\ \E i \in DOMAIN tasks : tasks[i].status = "in_progress"

\* the countdowns, the flags seen by the board and the tasks
TimerAndTasks ==
    <<pomoRunning, pomoLeft, breakRunning, breakLeft, lastTick, pomoCount,
      isBreakActive, suppressAutoStart, tasks>>

\* C37: the Pomodoro button pressed while a break runs (and focus does not) only
\* opens the confirmation: both countdowns, the flags and the tasks stay as they
\* are and the break keeps running; "Iptal" closes the confirmation and changes
\* nothing else; "Pomodoro'ya gec" is the step that stops the break and starts
\* focus from the full focus duration.
C37_BreakConfirm ==
    [][/\ (breakRunning /\ ~pomoRunning /\ PomoButton) =>
             /\ showBreakConfirm' /\ breakRunning'
             /\ UNCHANGED TimerAndTasks
       /\ BreakConfirmCancel =>
             /\ ~showBreakConfirm'
             /\ UNCHANGED TimerAndTasks
       /\ (breakRunning /\ BreakConfirmSwitch) =>
             /\ ~showBreakConfirm' /\ ~breakRunning' /\ ~isBreakActive'
             /\ pomoRunning' /\ pomoLeft' = pomoDuration]_vars

\* the confirmation is open over a running break that has stopped the task
\* in progress
C37_Witness ==
    /\ showBreakConfirm /\ breakRunning /\ isBreakActive /\ ~pomoRunning
    /\ \E i \in DOMAIN tasks :
          /\ tasks[i].status = "in_progress" /\ tasks[i].startedAt = Null
          /\ ~tasks[i].paused /\ tasks[i].accumulatedMs > 0

\* C38: a change of the focus duration while the focus countdown is stopped
\* sets the remaining focus time to the new duration, and while it runs leaves
\* the remaining focus time as it was; the same for the break duration and the
\* break countdown.
C38_DurationChange ==
    [][\A m \in 1..MaxMinutes :
          /\ SetPomoDuration(m) =>
                /\ pomoDuration' = m
                /\ pomoLeft' = IF pomoRunning THEN pomoLeft ELSE m
          /\ SetBreakDuration(m) =>
                /\ breakDuration' = m
                /\ breakLeft' = IF breakRunning THEN breakLeft ELSE m]_vars

\* a focus countdown that kept more remaining time than the shortened setting,
\* next to a stopped break countdown that follows a changed break setting
C38_Witness ==
    /\ pomoRunning /\ pomoLeft > pomoDuration
    /\ ~breakRunning /\ breakDuration # InitSettings.breakDuration
    /\ breakLeft = breakDuration

\* C39: while the focus-done prompt is open, the long-break option can be
\* taken exactly when the cycle counter is positive and a multiple of the
\* cadence, and the short-break and later options can always be taken.
C39_LongBreakOffer ==
    showPomoDone =>
        /\ (ENABLED PomoDoneLongBreak) <=>
               (pomoCount > 0 /\ pomoCount % longBreakEvery = 0)
        /\ ENABLED PomoDoneShortBreak
        /\ ENABLED PomoDoneLater

\* the prompt open on a second cycle with a cadence of two
C39_Witness ==
    /\ showPomoDone /\ longBreakEvery = 2
    /\ pomoCount = 2

====
